---- MODULE Spec2Model ----
(***************************************************************************)
(* A model of ubidump (src/ubidump.py): the UBI block layer (scanblocks,   *)
(* volume table), the UBIFS index tree with its Cursor and UbiFs.find,      *)
(* savefile, and the processfile / main drivers.                            *)
(*                                                                          *)
(* Several specifications share the variables below; each one exercises one *)
(* layer of the program and keeps the other layers' variables unchanged.    *)
(*   SpecCursor : UbiFsIndex.find, UbiFs.find, Cursor.next / prev           *)
(*   SpecScan   : UbiBlocks.__init__ (find_blocksize, scanblocks, scanvtbls) *)
(*   SpecSave   : UbiFs.savefile                                             *)
(*   SpecDir    : UbiFs.findfile and UbiFs.recursefiles on directory trees   *)
(*   SpecLoad   : UbiFs.load and find_most_recent_master                     *)
(*   SpecDeep   : UbiFs.find on deep and on cyclic chains of index nodes     *)
(*   SpecMain   : main and processfile over the files of a command line      *)
(*   SpecVols   : main and processfile on images with sparse or damaged       *)
(*                volume tables                                               *)
(***************************************************************************)
EXTENDS Integers, Sequences, FiniteSets, TLC

VARIABLES
    nodes,      \* the volume's nodes: (lnum, offs) -> parsed node, what readnode returns
    root,       \* UbiFs.root: the root index node loaded by UbiFs.load
    stack,      \* Cursor.stack: sequence of <<page, ix>> frames, root first
    cur,        \* outcome of the last UbiFs.find: "cursor", "None" or "error"
    op,         \* the last operation applied: [name, rel, key]
    dir,        \* direction of the moves made since the cursor was last at eof
    trace       \* keys the cursor stood on since it last left eof, in visiting order

cursorVars == <<nodes, root, stack, cur, op, dir, trace>>

VARIABLES
    img,        \* the image file being read: [magic, lebsize, pebs]
    blks,       \* the UbiBlocks object: [lebsize, maxlebs, vmap, attrs, ec, vtbl, vbyname]
    bpc,        \* position in UbiBlocks.__init__
    scanlnum,   \* the loop variable lnum of scanblocks
    rv          \* the last readvolume call: [volid, lnum, res]

blockVars == <<img, blks, bpc, scanlnum, rv>>

VARIABLES
    sv,         \* the last savefile call: [inum, res, len], len the length of its sink
    fsr         \* the last findfile or recursefiles call and what it returned

VARIABLES
    files,      \* args.FILES: the names of the image files on the command line
    args,       \* the flags given: a subset of {"v", "d", "s", "l"}
    mpc,        \* position of main and processfile: [pc, fi, volid, nvol]
    out         \* what was printed and saved for each file so far

mainVars == <<files, args, mpc, out>>

driverVars == <<sv, fsr, mainVars>>

vars == <<cursorVars, blockVars, driverVars>>

(***************************************************************************)
(* Keys  (src/ubidump.py 247-262)                                          *)
(***************************************************************************)

\* number of value bits in the second key word: value & 0x1FFFFFFF, value >> 29
KeyValueBits == 29

Pow2(n) == 2 ^ n

Min(S) == CHOOSE x \in S : \A y \in S : x <= y
Max(S) == CHOOSE x \in S : \A y \in S : x >= y

\* python's cmp on integers (lines 19-21)
cmp(a, b) == (IF a > b THEN 1 ELSE 0) - (IF a < b THEN 1 ELSE 0)

\* python's cmp on 3-tuples: lexicographic
cmptuple(a, b) ==
    IF cmp(a[1], b[1]) # 0 THEN cmp(a[1], b[1])
    ELSE IF cmp(a[2], b[2]) # 0 THEN cmp(a[2], b[2])
    ELSE cmp(a[3], b[3])

\* a packed key is the pair of little-endian 32 bit words <<inum, (type<<29)|value>>
unpackkey(key) ==
    <<key[1], key[2] \div Pow2(KeyValueBits), key[2] % Pow2(KeyValueBits)>>

\* (ityp<<29) | value ; for value < 2^29 the bitwise or is the sum
packkey(key) ==
    <<key[1], key[2] * Pow2(KeyValueBits) + (key[3] % Pow2(KeyValueBits))>>

\* a comparison of the second key word alone, the inum ignored
comparekeysWordOnly(lhs, rhs) == cmp(lhs[2], rhs[2])

comparekeys(lhs, rhs) == cmptuple(unpackkey(lhs), unpackkey(rhs))

(***************************************************************************)
(* Node store and UbiFs.readnode  (src/ubidump.py 628-648)                  *)
(***************************************************************************)

\* readnode raises when the address holds no node (no ubifs magic there) or
\* when the node's crc does not match
readnodeOK(lnum, offs) ==
    /\ <<lnum, offs>> \in DOMAIN nodes
    /\ nodes[<<lnum, offs>>].crc_ok

readnode(lnum, offs) == nodes[<<lnum, offs>>]

(***************************************************************************)
(* UbiFsIndex.find  (src/ubidump.py 493-528)                                *)
(* Branch indexes are 0-based as in the source; branches is a 1-based       *)
(* sequence, so branch ix is branches[ix+1].                                *)
(***************************************************************************)

RECURSIVE IndexFindFrom(_, _, _)
IndexFindFrom(branches, key, i) ==
    LET Compared(c) ==
            IF c < 0 THEN (IF i = 0 THEN <<"lt", i>> ELSE <<"gt", i - 1>>)
            ELSE IF c = 0 THEN <<"eq", i>>
            ELSE IndexFindFrom(branches, key, i + 1)
    IN  IF i >= Len(branches) THEN <<"gt", Len(branches) - 1>>
        ELSE Compared(comparekeys(key, branches[i + 1].key))

IndexFind(page, key) == IndexFindFrom(page.branches, key, 0)

(***************************************************************************)
(* UbiFs.Cursor  (src/ubidump.py 666-728)                                   *)
(* A frame is <<page, ix>>: the parsed index node and a branch index.       *)
(* Every operation returns [stack, err]; err # "" is a raised exception.    *)
(***************************************************************************)

Front(s) == SubSeq(s, 1, Len(s) - 1)
Top(s) == s[Len(s)]

\* lines 687-690: while page.level: readnode the branch, take its first branch
RECURSIVE DescendFirst(_, _, _)
DescendFirst(st, page, ix) ==
    IF page.level = 0 THEN [stack |-> st, err |-> ""]
    ELSE LET b == page.branches[ix + 1] IN
         IF ~readnodeOK(b.lnum, b.offs) THEN [stack |-> st, err |-> "readnode"]
         ELSE LET p == readnode(b.lnum, b.offs) IN
              DescendFirst(Append(st, <<p, 0>>), p, 0)

\* lines 705-708: while page.level: readnode the branch, take its last branch
RECURSIVE DescendLast(_, _, _)
DescendLast(st, page, ix) ==
    IF page.level = 0 THEN [stack |-> st, err |-> ""]
    ELSE LET b == page.branches[ix + 1] IN
         IF ~readnodeOK(b.lnum, b.offs) THEN [stack |-> st, err |-> "readnode"]
         ELSE LET p == readnode(b.lnum, b.offs) IN
              DescendLast(Append(st, <<p, Len(p.branches) - 1>>), p, Len(p.branches) - 1)

\* lines 681-682: while self.stack and ix==len(page.branches)-1: pop
RECURSIVE PopWhileLast(_, _, _)
PopWhileLast(st, page, ix) ==
    IF st # <<>> /\ ix = Len(page.branches) - 1
    THEN PopWhileLast(Front(st), Top(st)[1], Top(st)[2])
    ELSE [stack |-> st, page |-> page, ix |-> ix]

\* lines 699-700: while self.stack and ix==0: pop
RECURSIVE PopWhileFirst(_, _, _)
PopWhileFirst(st, page, ix) ==
    IF st # <<>> /\ ix = 0
    THEN PopWhileFirst(Front(st), Top(st)[1], Top(st)[2])
    ELSE [stack |-> st, page |-> page, ix |-> ix]

\* next() without the loop of lines 681-682: one frame popped, no more
CursorNextSinglePop(st) ==
    IF st = <<>> THEN DescendFirst(<<<<root, 0>>>>, root, 0)
    ELSE IF Top(st)[2] = Len(Top(st)[1].branches) - 1
         THEN [stack |-> Front(st), err |-> ""]
         ELSE DescendFirst(Append(Front(st), <<Top(st)[1], Top(st)[2] + 1>>),
                           Top(st)[1], Top(st)[2] + 1)

\* Cursor.next, lines 673-690
CursorNext(st) ==
    LET Popped(r) ==
            IF r.ix = Len(r.page.branches) - 1 THEN [stack |-> r.stack, err |-> ""]
            ELSE DescendFirst(Append(r.stack, <<r.page, r.ix + 1>>), r.page, r.ix + 1)
    IN  IF st = <<>> THEN DescendFirst(<<<<root, 0>>>>, root, 0)
        ELSE Popped(PopWhileLast(Front(st), Top(st)[1], Top(st)[2]))

\* prev() seeding an empty stack from the root's first branch, as next() does
CursorPrevSeedFirst(st) ==
    IF st = <<>> THEN DescendLast(<<<<root, 0>>>>, root, 0)
    ELSE LET Popped(r) ==
                 IF r.ix = 0 THEN [stack |-> r.stack, err |-> ""]
                 ELSE DescendLast(Append(r.stack, <<r.page, r.ix - 1>>), r.page,
                                  r.ix - 1)
         IN  Popped(PopWhileFirst(Front(st), Top(st)[1], Top(st)[2]))

\* Cursor.prev, lines 691-708
CursorPrev(st) ==
    IF st = <<>> THEN DescendLast(<<<<root, Len(root.branches) - 1>>>>, root,
                                  Len(root.branches) - 1)
    ELSE LET Popped(r) ==
                 IF r.ix = 0 THEN [stack |-> r.stack, err |-> ""]
                 ELSE DescendLast(Append(r.stack, <<r.page, r.ix - 1>>), r.page,
                                  r.ix - 1)
         IN  Popped(PopWhileFirst(Front(st), Top(st)[1], Top(st)[2]))

\* Cursor.eof, lines 709-710
eof(st) == Len(st) = 0

\* Cursor.getkey, lines 714-720 (None on an empty stack)
getkey(st) ==
    IF st # <<>> THEN unpackkey(Top(st)[1].branches[Top(st)[2] + 1].key)
    ELSE <<>>

(***************************************************************************)
(* UbiFs.find  (src/ubidump.py 731-771)                                     *)
(***************************************************************************)

\* the cursor stack may not reach this many frames (lines 742, 748)
MaxStackDepth == 32

\* lines 742-747: the descent; yields the stack and the last act
RECURSIVE FindDescend(_, _, _, _)
FindDescend(st, page, act, key) ==
    LET Found(r) ==
            LET st2 == Append(st, <<page, r[2]>>)
                b   == page.branches[r[2] + 1]
            IN  IF page.level = 0 THEN [stack |-> st2, act |-> r[1], err |-> ""]
                ELSE IF ~readnodeOK(b.lnum, b.offs)
                     THEN [stack |-> st2, act |-> r[1], err |-> "readnode"]
                     ELSE FindDescend(st2, readnode(b.lnum, b.offs), r[1], key)
    IN  IF Len(st) < MaxStackDepth THEN Found(IndexFind(page, packkey(key)))
        ELSE [stack |-> st, act |-> act, err |-> ""]

\* the table of lines 760-771 with ('gt', 'ge') returning the cursor unmoved
FindCombineNoStep(act, rel, st) ==
    LET Stepped(r) == [res |-> IF r.err = "" THEN "cursor" ELSE "error",
                       stack |-> r.stack, err |-> r.err]
    IN
    CASE <<act, rel>> \in {<<"gt","lt">>, <<"gt","le">>, <<"eq","le">>, <<"eq","eq">>,
                           <<"eq","ge">>, <<"lt","ge">>, <<"lt","gt">>, <<"gt","ge">>}
            -> [res |-> "cursor", stack |-> st, err |-> ""]
      [] <<act, rel>> \in {<<"lt","lt">>, <<"lt","le">>, <<"lt","eq">>, <<"gt","eq">>}
            -> [res |-> "None", stack |-> <<>>, err |-> ""]
      [] <<act, rel>> = <<"eq","lt">>
            -> Stepped(CursorPrev(st))
      [] <<act, rel>> \in {<<"eq","gt">>, <<"gt","gt">>}
            -> Stepped(CursorNext(st))
      [] OTHER -> [res |-> "error", stack |-> st, err |-> "unexpected case"]

\* lines 760-771: combine what the leaf found (act) with what was asked (rel)
FindCombine(act, rel, st) ==
    LET Stepped(r) == [res |-> IF r.err = "" THEN "cursor" ELSE "error",
                       stack |-> r.stack, err |-> r.err]
    IN
    CASE <<act, rel>> \in {<<"gt","lt">>, <<"gt","le">>, <<"eq","le">>, <<"eq","eq">>,
                           <<"eq","ge">>, <<"lt","ge">>, <<"lt","gt">>}
            -> [res |-> "cursor", stack |-> st, err |-> ""]
      [] <<act, rel>> \in {<<"lt","lt">>, <<"lt","le">>, <<"lt","eq">>, <<"gt","eq">>}
            -> [res |-> "None", stack |-> <<>>, err |-> ""]
      [] <<act, rel>> = <<"eq","lt">>
            -> Stepped(CursorPrev(st))
      [] <<act, rel>> \in {<<"eq","gt">>, <<"gt","ge">>, <<"gt","gt">>}
            -> Stepped(CursorNext(st))
      [] OTHER -> [res |-> "error", stack |-> st, err |-> "unexpected case"]

\* UbiFs.find: [res, stack, err], res one of "cursor", "None", "error"
UbiFsFind(rel, key) ==
    LET Descended(d) ==
            IF d.err # "" THEN [res |-> "error", stack |-> d.stack, err |-> d.err]
            ELSE IF Len(d.stack) = MaxStackDepth
                 THEN [res |-> "error", stack |-> d.stack, err |-> "tree too deep"]
                 ELSE FindCombine(d.act, rel, d.stack)
    IN  Descended(FindDescend(<<>>, root, "", key))

(***************************************************************************)
(* UbiFs.savefile  (src/ubidump.py 793-822)                                 *)
(* The sink is an initially empty file; the model keeps its length.  A      *)
(* parsed data node is [ntype |-> 1, crc_ok, len], len = len(dat.data); a   *)
(* parsed inode is [ntype |-> 0, crc_ok, size, len, mode].                  *)
(***************************************************************************)

UBIFS_BLOCKSIZE == 4096

\* Cursor.getnode, lines 721-728: the node the current branch points to
\* ("None" on an empty stack, "error" when readnode raises)
getnode(st) ==
    IF st = <<>> THEN [res |-> "None"]
    ELSE LET b == Top(st)[1].branches[Top(st)[2] + 1] IN
         IF readnodeOK(b.lnum, b.offs)
         THEN [res |-> "node", node |-> readnode(b.lnum, b.offs)]
         ELSE [res |-> "error"]

\* fh.seek(pos); fh.write(n bytes) on a file of length len: the length afterwards
WriteAt(len, pos, n) == IF n > 0 /\ pos + n > len THEN pos + n ELSE len

\* lines 803-813: the loop over the data nodes; [err, savedlen, len]
RECURSIVE SaveLoop(_, _, _, _)
SaveLoop(st, inum, savedlen, len) ==
    LET Advanced(n, sl2, len2) ==
            IF n.err # "" THEN [err |-> n.err, savedlen |-> sl2, len |-> len2]
            ELSE SaveLoop(n.stack, inum, sl2, len2)
        Got(dat) ==
            IF dat.res = "error"
            THEN [err |-> "readnode", savedlen |-> savedlen, len |-> len]
            ELSE IF "len" \notin DOMAIN dat.node
            THEN [err |-> "AttributeError", savedlen |-> savedlen, len |-> len]
            ELSE Advanced(CursorNext(st), savedlen + dat.node.len,
                        WriteAt(len, UBIFS_BLOCKSIZE * getkey(st)[3], dat.node.len))
    IN  IF eof(st) \/ cmptuple(getkey(st), <<inum, 2, 0>>) >= 0
        THEN [err |-> "", savedlen |-> savedlen, len |-> len]
        ELSE Got(getnode(st))

\* lines 817-822 without the padding branch: the sink is left as written
SaveFinishNoPad(savedlen, len, size) == len

\* lines 817-822: warn when more was saved than inode.size, seek and truncate to
\* inode.size when less was saved; the length of the sink afterwards
SaveFinish(savedlen, len, size) ==
    IF savedlen > size THEN len
    ELSE IF savedlen < size THEN size
    ELSE len

\* savefile(inum, fh, ubiname) on an empty fh: [err, len]
savefile(inum) ==
    LET GotInode(l, inode) ==
            IF inode.res = "error" THEN [err |-> "readnode", len |-> l.len]
            ELSE IF inode.res = "None" \/ "size" \notin DOMAIN inode.node
            THEN [err |-> "AttributeError", len |-> l.len]
            ELSE [err |-> "", len |-> SaveFinish(l.savedlen, l.len, inode.node.size)]
        FoundInode(l, c2) ==
            IF c2.res = "error" THEN [err |-> c2.err, len |-> l.len]
            ELSE IF c2.res = "None" THEN [err |-> "AttributeError", len |-> l.len]
            ELSE GotInode(l, getnode(c2.stack))
        Looped(l) ==
            IF l.err # "" THEN [err |-> l.err, len |-> l.len]
            ELSE FoundInode(l, UbiFsFind("eq", <<inum, 0, 0>>))
        FoundData(c) ==
            IF c.res = "error" THEN [err |-> c.err, len |-> 0]
            ELSE IF c.res = "None" THEN [err |-> "AttributeError", len |-> 0]
            ELSE Looped(SaveLoop(c.stack, inum, 0, 0))
    IN  FoundData(UbiFsFind("ge", <<inum, 1, 0>>))

(***************************************************************************)
(* namehash  (src/ubidump.py 264-275)                                       *)
(* A name is the sequence of its byte values.  The result keeps the low 29  *)
(* bits of the 32 bit accumulator, and the low 29 bits after each byte      *)
(* depend on the low 29 bits before it alone, so the accumulator is kept to *)
(* 29 bits throughout.                                                      *)
(***************************************************************************)

\* (a * 11) & 0x1FFFFFFF for a < 2^29, as 8a + 2a + a without leaving 2^31
Times11(a) ==
    LET a8 == (a % Pow2(KeyValueBits - 3)) * 8
        a2 == (a % Pow2(KeyValueBits - 1)) * 2
    IN  (((a8 + a2) % Pow2(KeyValueBits)) + a) % Pow2(KeyValueBits)

RECURSIVE NameHashFrom(_, _, _)
NameHashFrom(name, i, a) ==
    IF i > Len(name) THEN a
    ELSE NameHashFrom(name, i + 1,
            Times11((a + name[i] * 16 + name[i] \div 16) % Pow2(KeyValueBits)))

namehash(name) ==
    LET a == NameHashFrom(name, 1, 0) IN IF a <= 2 THEN a + 3 ELSE a

(***************************************************************************)
(* UbiFs.load, printrecursive, recursefiles and the loops of processfile    *)
(* over them  (src/ubidump.py 606-664, 774-791, 889-920)                    *)
(* A parsed dirent is [ntype |-> 2, crc_ok, inum, type, name]; a master     *)
(* node is [ntype |-> 7, crc_ok, root_lnum, root_offs].                     *)
(***************************************************************************)

MasterSlot == 4096            \* o += 0x1000

TYPE_REGULAR == 0
TYPE_DIRECTORY == 1
ALL_TYPES == 127

\* lines 606-613: read the nodes of LEB 1 at 0, 0x1000, ... until one fails; the
\* last one read is returned, and none read leaves mst unbound
RECURSIVE MasterLoop(_, _)
MasterLoop(o, mst) ==
    IF readnodeOK(1, o) THEN MasterLoop(o + MasterSlot, [set |-> TRUE, o |-> o])
    ELSE mst

find_most_recent_master ==
    LET Last(m) == IF m.set THEN [err |-> "", mst |-> readnode(1, m.o)]
                   ELSE [err |-> "UnboundLocalError", mst |-> [ntype |-> 7]]
    IN  Last(MasterLoop(0, [set |-> FALSE, o |-> 0]))

\* UbiFs.load, lines 615-622: [err, root]
UbiFsLoad ==
    LET Master(m) ==
            IF m.err # "" THEN [err |-> m.err, root |-> <<>>]
            ELSE IF "root_lnum" \notin DOMAIN m.mst
            THEN [err |-> "AttributeError", root |-> <<>>]
            ELSE IF ~readnodeOK(m.mst.root_lnum, m.mst.root_offs)
            THEN [err |-> "readnode", root |-> <<>>]
            ELSE [err |-> "", root |-> readnode(m.mst.root_lnum, m.mst.root_offs)]
    IN  IF ~readnodeOK(0, 0) THEN [err |-> "readnode", root |-> <<>>]
        ELSE Master(find_most_recent_master)

\* printrecursive, lines 650-664: what is printed for the branches below idx, in
\* order: per branch its address and whether the node there was read ("ok", then
\* the node and all below it are printed) or the read raised ("ERROR")
RECURSIVE printrecursive(_)
RECURSIVE PrintBranches(_, _)
PrintBranches(idx, i) ==
    IF i >= Len(idx.branches) THEN <<>>
    ELSE LET b == idx.branches[i + 1] IN
         (IF readnodeOK(b.lnum, b.offs)
          THEN <<[lnum |-> b.lnum, offs |-> b.offs, res |-> "ok"]>>
               \o printrecursive(readnode(b.lnum, b.offs))
          ELSE <<[lnum |-> b.lnum, offs |-> b.offs, res |-> "ERROR"]>>)
         \o PrintBranches(idx, i + 1)

printrecursive(idx) ==
    IF "branches" \notin DOMAIN idx THEN <<>> ELSE PrintBranches(idx, 0)

\* filter & (1 << type)
FilterHas(filter, type) == (filter \div Pow2(type)) % 2 = 1

\* recursefiles, lines 774-791: [items, err]: the (inum, path) pairs the generator
\* yields, in order, and the exception that ends it, if any
RECURSIVE recursefiles(_, _, _)

\* the loop of recursefiles descending only into the directories it yields
RECURSIVE RecurseLoopYielded(_, _, _, _)
RecurseLoopYielded(st, inum, path, filter) ==
    LET Rest(items, rest) == [items |-> items \o rest.items, err |-> rest.err]
        Advanced(items, n) ==
            IF n.err # "" THEN [items |-> items, err |-> n.err]
            ELSE Rest(items, RecurseLoopYielded(n.stack, inum, path, filter))
        Below(own, sub) ==
            IF sub.err # "" THEN [items |-> own \o sub.items, err |-> sub.err]
            ELSE Advanced(own \o sub.items, CursorNext(st))
        Entry(node, p) ==
            Below(IF FilterHas(filter, node.type)
                  THEN <<[inum |-> node.inum, path |-> p]>> ELSE <<>>,
                  IF node.type = TYPE_DIRECTORY /\ FilterHas(filter, node.type)
                  THEN recursefiles(node.inum, p, filter)
                  ELSE [items |-> <<>>, err |-> ""])
        Got(ent) ==
            IF ent.res = "error" THEN [items |-> <<>>, err |-> "readnode"]
            ELSE IF "type" \notin DOMAIN ent.node
            THEN [items |-> <<>>, err |-> "AttributeError"]
            ELSE Entry(ent.node, Append(path, ent.node.name))
    IN  IF eof(st) \/ cmptuple(getkey(st), <<inum, 3, 0>>) >= 0
        THEN [items |-> <<>>, err |-> ""]
        ELSE Got(getnode(st))

RECURSIVE RecurseLoop(_, _, _, _)
RecurseLoop(st, inum, path, filter) ==
    LET Rest(items, rest) == [items |-> items \o rest.items, err |-> rest.err]
        Advanced(items, n) ==
            IF n.err # "" THEN [items |-> items, err |-> n.err]
            ELSE Rest(items, RecurseLoop(n.stack, inum, path, filter))
        Below(own, sub) ==
            IF sub.err # "" THEN [items |-> own \o sub.items, err |-> sub.err]
            ELSE Advanced(own \o sub.items, CursorNext(st))
        Entry(node, p) ==
            Below(IF FilterHas(filter, node.type)
                  THEN <<[inum |-> node.inum, path |-> p]>> ELSE <<>>,
                  IF node.type = TYPE_DIRECTORY THEN recursefiles(node.inum, p, filter)
                  ELSE [items |-> <<>>, err |-> ""])
        Got(ent) ==
            IF ent.res = "error" THEN [items |-> <<>>, err |-> "readnode"]
            ELSE IF "type" \notin DOMAIN ent.node
            THEN [items |-> <<>>, err |-> "AttributeError"]
            ELSE Entry(ent.node, Append(path, ent.node.name))
    IN  IF eof(st) \/ cmptuple(getkey(st), <<inum, 3, 0>>) >= 0
        THEN [items |-> <<>>, err |-> ""]
        ELSE Got(getnode(st))

recursefiles(inum, path, filter) ==
    LET Found(c) ==
            IF c.res = "error" THEN [items |-> <<>>, err |-> c.err]
            ELSE IF c.res = "None" THEN [items |-> <<>>, err |-> "AttributeError"]
            ELSE RecurseLoop(c.stack, inum, path, filter)
    IN  Found(UbiFsFind("ge", <<inum, 2, 0>>))

\* findfile with the lookup of line 835 made with 'ge': a component that is
\* absent resolves to the entry after its place
RECURSIVE FindFileGe(_, _, _, _)
FindFileGe(path, i, inum, itype) ==
    LET Got(dirent) ==
            IF dirent.res = "error"
            THEN [err |-> "readnode", found |-> FALSE, inum |-> 0]
            ELSE IF dirent.res = "None" \/ "type" \notin DOMAIN dirent.node
            THEN [err |-> "AttributeError", found |-> FALSE, inum |-> 0]
            ELSE FindFileGe(path, i + 1, dirent.node.inum, dirent.node.type)
        Found(c) ==
            IF c.res = "error" THEN [err |-> c.err, found |-> FALSE, inum |-> 0]
            ELSE IF c.res = "None" \/ eof(c.stack)
            THEN [err |-> "", found |-> FALSE, inum |-> 0]
            ELSE Got(getnode(c.stack))
    IN  IF i > Len(path) THEN [err |-> "", found |-> TRUE, inum |-> inum]
        ELSE IF itype # TYPE_DIRECTORY THEN [err |-> "", found |-> FALSE, inum |-> 0]
        ELSE Found(UbiFsFind("ge", <<inum, 2, namehash(path[i])>>))

\* findfile, lines 830-841, from component i of path on: [err, found, inum];
\* found FALSE is the None of lines 834 and 838
RECURSIVE FindFileFrom(_, _, _, _)
FindFileFrom(path, i, inum, itype) ==
    LET Got(dirent) ==
            IF dirent.res = "error"
            THEN [err |-> "readnode", found |-> FALSE, inum |-> 0]
            ELSE IF dirent.res = "None" \/ "type" \notin DOMAIN dirent.node
            THEN [err |-> "AttributeError", found |-> FALSE, inum |-> 0]
            ELSE FindFileFrom(path, i + 1, dirent.node.inum, dirent.node.type)
        Found(c) ==
            IF c.res = "error" THEN [err |-> c.err, found |-> FALSE, inum |-> 0]
            ELSE IF c.res = "None" \/ eof(c.stack)
            THEN [err |-> "", found |-> FALSE, inum |-> 0]
            ELSE Got(getnode(c.stack))
    IN  IF i > Len(path) THEN [err |-> "", found |-> TRUE, inum |-> inum]
        ELSE IF itype # TYPE_DIRECTORY THEN [err |-> "", found |-> FALSE, inum |-> 0]
        ELSE Found(UbiFsFind("eq", <<inum, 2, namehash(path[i])>>))

\* findfile(path, inum), lines 824-841
findfile(path, inum) == FindFileFrom(path, 1, inum, TYPE_DIRECTORY)

\* the exception of the loop body if it raised, else that of the generator
LoopResult(g, s) == [done |-> s.done, err |-> IF s.err # "" THEN s.err ELSE g.err]

\* lines 891-901: the body of the -s loop for the items yielded, up to the first
\* savefile that raises; [done, err], done the paths saved with their lengths
RECURSIVE SaveItems(_, _)
SaveItems(items, i) ==
    LET Rest(r, rest) ==
            [done |-> <<[path |-> items[i].path, len |-> r.len]>> \o rest.done,
             err |-> rest.err]
        Saved(r) ==
            IF r.err # "" THEN [done |-> <<>>, err |-> r.err]
            ELSE Rest(r, SaveItems(items, i + 1))
    IN  IF i > Len(items) THEN [done |-> <<>>, err |-> ""]
        ELSE Saved(savefile(items[i].inum))

\* lines 889-903: for inum, path in fs.recursefiles(1, []): ... fs.savefile(...)
\* (inum: the directory the walk starts at, 1)
savedir(inum) ==
    LET Walked(g) == LoopResult(g, SaveItems(g.items, 1))
    IN  Walked(recursefiles(inum, <<>>, Pow2(TYPE_REGULAR)))

\* lines 906-920: the body of the -l loop for the items yielded, up to the first
\* inode that cannot be read; [done, err], done the paths listed
RECURSIVE ListItems(_, _)
ListItems(items, i) ==
    LET Rest(rest) == [done |-> <<items[i].path>> \o rest.done, err |-> rest.err]
        GotInode(inode) ==
            IF inode.res = "error" THEN [done |-> <<>>, err |-> "readnode"]
            ELSE IF inode.res = "None" \/ "size" \notin DOMAIN inode.node
            THEN [done |-> <<>>, err |-> "AttributeError"]
            ELSE Rest(ListItems(items, i + 1))
        Found(c) ==
            IF c.res = "error" THEN [done |-> <<>>, err |-> c.err]
            ELSE IF c.res = "None" THEN [done |-> <<>>, err |-> "AttributeError"]
            ELSE GotInode(getnode(c.stack))
    IN  IF i > Len(items) THEN [done |-> <<>>, err |-> ""]
        ELSE Found(UbiFsFind("eq", <<items[i].inum, 0, 0>>))

\* lines 904-920: for inum, path in fs.recursefiles(1, [], ALL_TYPES): ...
\* (inum: the directory the walk starts at, 1)
listfiles(inum) ==
    LET Walked(g) == LoopResult(g, ListItems(g.items, 1))
    IN  Walked(recursefiles(inum, <<>>, ALL_TYPES))

(***************************************************************************)
(* Block layer: UbiBlocks  (src/ubidump.py 113-230)                         *)
(*                                                                          *)
(* An image is [magic, lebsize, pebs]: whether its first four bytes are     *)
(* UBI#, the blocksize find_blocksize detects (0: none), and its whole      *)
(* physical erase blocks.  A PEB is [ec, vid, recs, nodes]: what parsing   *)
(* its EC header and the VID header at ec.vid_hdr_ofs gives, the volume     *)
(* table records at ec.data_ofs, and the ubifs nodes by offset from there.  *)
(***************************************************************************)

VTBL_VOLID == 2147479551      \* 0x7fffefff

VtblSlots == 128              \* for i in range(128)

\* UbiEcHeader.parse / UbiVidHead.parse raise on a wrong magic or crc (lines 37-40, 59-62)
EcParses(peb)  == peb.ec.magic_ok /\ peb.ec.crc_ok
VidParses(peb) == peb.vid.magic_ok /\ peb.vid.crc_ok

\* find_blocksize, lines 134-144
find_blocksize(image) ==
    IF ~image.magic THEN [err |-> "not an UBI image", lebsize |-> 0]
    ELSE IF image.lebsize = 0
         THEN [err |-> "Could not determine UBI image blocksize", lebsize |-> 0]
         ELSE [err |-> "", lebsize |-> image.lebsize]

\* self.vmap[v][l] = p on the defaultdict of defaultdicts
SetMap(vm, v, l, p) ==
    IF v \in DOMAIN vm THEN [vm EXCEPT ![v] = (l :> p) @@ vm[v]]
    ELSE (v :> (l :> p)) @@ vm

\* a scan that keeps the first physical block seen for (vol_id, lnum)
ScanStepKeepFirst(vm, pebs, lnum) ==
    LET peb == pebs[lnum + 1] IN
    IF EcParses(peb) /\ VidParses(peb)
       /\ ~(peb.vid.vol_id \in DOMAIN vm /\ peb.vid.lnum \in DOMAIN vm[peb.vid.vol_id])
    THEN SetMap(vm, peb.vid.vol_id, peb.vid.lnum, lnum)
    ELSE vm

\* one iteration of scanblocks, lines 153-164: any exception skips the block
ScanStep(vm, pebs, lnum) ==
    LET peb == pebs[lnum + 1] IN
    IF EcParses(peb) /\ VidParses(peb)
    THEN SetMap(vm, peb.vid.vol_id, peb.vid.lnum, lnum)
    ELSE vm

\* scanblocks, lines 146-164: for lnum in range(self.maxlebs)
RECURSIVE ScanFrom(_, _, _, _)
ScanFrom(vm, pebs, lnum, maxlebs) ==
    IF lnum >= maxlebs THEN vm
    ELSE ScanFrom(ScanStep(vm, pebs, lnum), pebs, lnum + 1, maxlebs)

EmptyMap == [x \in {} |-> 0]

scanblocks(pebs, maxlebs) == ScanFrom(EmptyMap, pebs, 0, maxlebs)

\* self.vmap[VTBL_VOLID][0] (line 130): the inner defaultdict(int) answers 0 for a
\* missing lnum 0 and stores it
VtblLookup(vm) ==
    IF 0 \in DOMAIN vm[VTBL_VOLID] THEN [vmap |-> vm, lnum |-> vm[VTBL_VOLID][0]]
    ELSE [vmap |-> SetMap(vm, VTBL_VOLID, 0, 0), lnum |-> 0]

\* UbiVtblRecord.empty, lines 87-92 (a record never parsed has no name: empty)
VrecEmpty(vrec) == IF vrec.parsed THEN vrec.reserved_pebs = 0 /\ vrec.name = "" ELSE TRUE

\* UbiVtblRecord(), lines 79-80
NewVrec == [parsed |-> FALSE, crc_ok |-> TRUE, reserved_pebs |-> 0, name |-> ""]

\* record i of the table at ec.data_ofs of a PEB; past the records given, zero bytes
\* with a valid crc
VrecAt(peb, i) ==
    IF i < Len(peb.recs) THEN peb.recs[i + 1]
    ELSE [parsed |-> TRUE, crc_ok |-> TRUE, reserved_pebs |-> 0, name |-> ""]

\* lines 191-199: the loop over the 128 records, which ends at the first record that
\* fails to parse; a name seen twice keeps its last index
VtblLoop(peb) ==
    LET bad   == {i \in 0..(VtblSlots - 1) : ~VrecAt(peb, i).crc_ok}
        n     == IF bad = {} THEN VtblSlots ELSE Min(bad)
        named == {i \in 0..(n - 1) : ~VrecEmpty(VrecAt(peb, i))}
    IN  [err |-> IF bad = {} THEN "" ELSE "crc mismatch",
         vtbl |-> [i \in 1..n |-> VrecAt(peb, i - 1)],
         vbyname |-> [nm \in {VrecAt(peb, i).name : i \in named} |->
                         Max({i \in named : VrecAt(peb, i).name = nm})]]

NoNames == [x \in {} |-> 0]

\* scanvtbls, lines 170-207, on the UbiBlocks object b
scanvtbls(b, pebs, lnum) ==
    LET peb == pebs[lnum + 1] IN
    IF lnum >= Len(pebs) \/ ~EcParses(peb) THEN [b EXCEPT !.err = "ec header"]
    ELSE LET b1 == [b EXCEPT !.ec = peb.ec, !.attrs = @ \cup {"ec"}] IN
         IF ~VidParses(peb)
         THEN \* except: self.vid = UbiVidHead(); self.vtbl = [UbiVtblRecord()]
              [b1 EXCEPT !.attrs = @ \cup {"vid", "vtbl"}, !.vtbl = <<NewVrec>>]
         ELSE IF peb.vid.vol_id # VTBL_VOLID
              THEN [b1 EXCEPT !.attrs = @ \cup {"vid", "vtbl", "vbyname"},
                              !.vtbl = <<>>, !.vbyname = NoNames]
              ELSE LET r == VtblLoop(peb) IN
                   [b1 EXCEPT !.attrs = @ \cup {"vid", "vtbl", "vbyname"},
                              !.vtbl = IF r.err = "" THEN r.vtbl ELSE <<NewVrec>>,
                              !.vbyname = r.vbyname]

\* the object after "self.fh = fh": no attribute set yet
NewBlocks ==
    [err |-> "", lebsize |-> 0, maxlebs |-> 0, vmap |-> EmptyMap, attrs |-> {},
     ec |-> [magic_ok |-> FALSE, crc_ok |-> FALSE, data_ofs |-> 0],
     vtbl |-> <<>>, vbyname |-> NoNames]

\* lines 127-130: the rest of __init__ after scanblocks
AfterScan(b, pebs) ==
    IF VTBL_VOLID \notin DOMAIN b.vmap THEN b
    ELSE LET r == VtblLookup(b.vmap) IN
         scanvtbls([b EXCEPT !.vmap = r.vmap], pebs, r.lnum)

\* UbiBlocks.__init__, lines 117-132
UbiBlocksInit(image) ==
    LET f == find_blocksize(image) IN
    IF f.err # "" THEN [NewBlocks EXCEPT !.err = f.err]
    ELSE AfterScan([NewBlocks EXCEPT !.lebsize = f.lebsize,
                                     !.maxlebs = Len(image.pebs),
                                     !.attrs = {"lebsize", "maxlebs", "vmap"},
                                     !.vmap = scanblocks(image.pebs, Len(image.pebs))],
                   image.pebs)

\* nr_volumes, lines 218-219: len(self.vbyname)
nr_volumes(b) ==
    IF "vbyname" \in b.attrs THEN [err |-> "", n |-> Cardinality(DOMAIN b.vbyname)]
    ELSE [err |-> "AttributeError", n |-> 0]


(***************************************************************************)
(* The layers a specification does not exercise stay in these states        *)
(***************************************************************************)

BlocksIdle ==
    /\ img = [magic |-> FALSE, lebsize |-> 0, pebs |-> <<>>]
    /\ blks = NewBlocks
    /\ bpc = "idle"
    /\ scanlnum = 0
    /\ rv = [volid |-> 0, lnum |-> 0, res |-> "none"]

CursorIdle ==
    /\ nodes = [a \in {} |-> 0]
    /\ root = [ntype |-> 9, crc_ok |-> TRUE, level |-> 0, branches |-> <<>>]
    /\ stack = <<>>
    /\ cur = "None"
    /\ op = [name |-> "none", rel |-> "", key |-> <<0, 0, 0>>]
    /\ dir = "none"
    /\ trace = <<>>

NoSave == [inum |-> 0, res |-> "none", len |-> 0]

MainIdle ==
    /\ files = <<>>
    /\ args = {}
    /\ mpc = [pc |-> "idle", fi |-> 0, volid |-> 0, nvol |-> 0]
    /\ out = <<>>

NoCall == [name |-> "none"]

DriverIdle ==
    /\ sv = NoSave
    /\ fsr = NoCall
    /\ MainIdle

(***************************************************************************)
(* Index trees for SpecCursor.  The program only reads trees, so the tree  *)
(* is an input: Init draws it from every tree of bounded shape over a      *)
(* bounded key universe that satisfies the branch-key invariant.           *)
(***************************************************************************)

NumKeys   == 4     \* size of the key universe
MaxFanout == 2     \* most branches of one index node
MaxDepth  == 3     \* most levels of index nodes (root level <= MaxDepth-1)

\* the i-th key of the universe, increasing in i under the (inum, type, value) order:
\* per inode an inode key (n,0,0), a data key (n,1,1) and a dirent key (n,2,0), so that
\* the order is decided by the inum before the type and by the type before the value
KeyAt(i) == <<1 + ((i - 1) \div 3), (i - 1) % 3, IF (i - 1) % 3 = 1 THEN 1 ELSE 0>>

KeyUniverse == {KeyAt(i) : i \in 1..NumKeys}

Rels == {"lt", "le", "eq", "ge", "gt"}

RECURSIVE SumFirst(_, _)
SumFirst(c, k) == IF k = 0 THEN 0 ELSE c[k] + SumFirst(c, k - 1)

\* the sequences of parts in 1..MaxFanout that sum to m
RECURSIVE Compositions(_)
Compositions(m) ==
    IF m = 0 THEN {<<>>}
    ELSE UNION {{<<p>> \o c : c \in Compositions(m - p)} :
                p \in 1..(IF m < MaxFanout THEN m ELSE MaxFanout)}

\* a shape is one composition per level, leaves first: comps[l+1] gives the child
\* counts of the nodes of level l; the last level holds the single root
RECURSIVE ShapesFrom(_, _)
ShapesFrom(m, levels) ==
    UNION {{<<c>> \o rest :
              rest \in (IF Len(c) = 1 THEN {<<>>} ELSE {}) \cup
                       (IF levels > 1 THEN ShapesFrom(Len(c), levels - 1) ELSE {})} :
           c \in Compositions(m)}

FirstChild(c, j) == 1 + SumFirst(c, j - 1)

\* index into the leaf key sequence of the first key below node j of level l
RECURSIVE FirstKeyIdx(_, _, _)
FirstKeyIdx(comps, l, j) ==
    IF l = 0 THEN FirstChild(comps[1], j)
    ELSE FirstKeyIdx(comps, l - 1, FirstChild(comps[l + 1], j))

\* lab labels each universe key "L" (a leaf key), "B" (usable as a branch key only)
\* or "-" (absent).  ks: the leaf keys, as universe indexes, increasing.
LeafIdxSeq(lab) ==
    SelectSeq([i \in 1..NumKeys |-> i], LAMBDA i : lab[i] = "L")

\* the lowest "B" key in the gap below leaf key i, else the leaf key itself
SlackIdx(lab, ks, i) ==
    LET lo   == IF i = 1 THEN 0 ELSE ks[i - 1]
        cand == {u \in (lo + 1)..(ks[i] - 1) : lab[u] = "B"}
    IN  IF cand = {} THEN ks[i] ELSE Min(cand)

\* addresses: the index nodes of level l lie in LEB 10 + l, the leaf nodes in LEB 9
IdxLnum(l) == 10 + l
LeafLnum == IdxLnum(0) - 1

\* the parsed index node j of level l; a level in `slack` takes its branch keys from
\* the gap below the subtree instead of the subtree's first key
MkNode(lab, comps, slack, l, j) ==
    LET ks == LeafIdxSeq(lab)
        c  == comps[l + 1]
    IN  [ntype |-> 9, crc_ok |-> TRUE, level |-> l,
         branches |->
            [i \in 1..c[j] |->
                LET child == FirstChild(c, j) + i - 1 IN
                IF l = 0
                THEN [lnum |-> LeafLnum, offs |-> ks[child],
                      key |-> packkey(KeyAt(ks[child]))]
                ELSE LET fk == FirstKeyIdx(comps, l - 1, child) IN
                     [lnum |-> IdxLnum(l - 1), offs |-> child,
                      key |-> packkey(KeyAt(IF l \in slack THEN SlackIdx(lab, ks, fk)
                                            ELSE ks[fk]))]]]

MkNodes(lab, comps, slack) ==
    [a \in {<<IdxLnum(l), j>> : l \in 0..(Len(comps) - 1), j \in 1..MaxFanout ^ MaxDepth}
           \cap UNION {{<<IdxLnum(l), j>> : j \in 1..Len(comps[l + 1])} :
                       l \in 0..(Len(comps) - 1)}
        |-> MkNode(lab, comps, slack, a[1] - IdxLnum(0), a[2])]

(***************************************************************************)
(* The branch-key invariant of a tree (spec section 8, property 3)         *)
(***************************************************************************)

IsIndex(a) == nodes[a].ntype = 9

Range(f) == {f[x] : x \in DOMAIN f}

\* keys of the level-0 branches reachable through the node at address a
RECURSIVE SubtreeKeys(_)
SubtreeKeys(a) ==
    IF nodes[a].level = 0 THEN {unpackkey(b.key) : b \in Range(nodes[a].branches)}
    ELSE UNION {SubtreeKeys(<<b.lnum, b.offs>>) : b \in Range(nodes[a].branches)}

LeafKeys ==
    UNION {{unpackkey(b.key) : b \in Range(nodes[a].branches)} :
           a \in {x \in DOMAIN nodes : IsIndex(x) /\ nodes[x].level = 0}}

BranchKeyInvariant ==
    \A a \in {x \in DOMAIN nodes : IsIndex(x)} :
        LET br == nodes[a].branches IN
        /\ Len(br) >= 1
        /\ \A i \in 1..(Len(br) - 1) :
              cmptuple(unpackkey(br[i].key), unpackkey(br[i + 1].key)) < 0
        /\ nodes[a].level > 0 =>
             \A i \in 1..Len(br) :
                \A k \in SubtreeKeys(<<br[i].lnum, br[i].offs>>) :
                    /\ cmptuple(unpackkey(br[i].key), k) <= 0
                    /\ i < Len(br) => cmptuple(k, unpackkey(br[i + 1].key)) < 0

(***************************************************************************)
(* SpecCursor: UbiFs.find and Cursor.next / prev on one tree               *)
(***************************************************************************)

NoOp == [name |-> "none", rel |-> "", key |-> <<0, 0, 0>>]

InitCursor ==
    /\ \E lab \in [1..NumKeys -> {"L", "B", "-"}] :
         /\ \E i \in 1..NumKeys : lab[i] = "L"
         /\ \E comps \in ShapesFrom(Len(LeafIdxSeq(lab)), MaxDepth) :
              \E slack \in SUBSET (1..(Len(comps) - 1)) :
                 /\ nodes = MkNodes(lab, comps, slack)
                 /\ root = MkNode(lab, comps, slack, Len(comps) - 1, 1)
    /\ stack = <<>>
    /\ cur = "cursor"
    /\ op = NoOp
    /\ dir = "none"
    /\ trace = <<>>
    /\ BlocksIdle
    /\ DriverIdle

\* c = fs.find(rel, key): a behaviour follows the one cursor that its find returns
Find(rel, key) ==
    LET r == UbiFsFind(rel, key) IN
    /\ op.name = "none"
    /\ cur' = r.res
    /\ stack' = IF r.res = "cursor" THEN r.stack ELSE <<>>
    /\ op' = [name |-> "find", rel |-> rel, key |-> key]
    /\ dir' = "find"
    /\ trace' = <<>>
    /\ UNCHANGED <<nodes, root, blockVars, driverVars>>

\* the bookkeeping of a move: a run of moves in one direction that starts at eof
\* records the keys it stands on
Moved(d, st) ==
    /\ dir' = IF eof(stack) \/ dir = d THEN d ELSE "mixed"
    /\ trace' = IF eof(stack) THEN (IF eof(st) THEN <<>> ELSE <<getkey(st)>>)
                ELSE IF dir = d THEN (IF eof(st) THEN trace ELSE Append(trace, getkey(st)))
                ELSE <<>>

\* c.next()
Next_ ==
    /\ cur = "cursor"
    /\ LET r == CursorNext(stack) IN
        /\ r.err = ""
        /\ stack' = r.stack
        /\ Moved("next", r.stack)
    /\ op' = [name |-> "next", rel |-> "", key |-> <<0, 0, 0>>]
    /\ UNCHANGED <<nodes, root, cur, blockVars, driverVars>>

\* c.prev()
Prev_ ==
    /\ cur = "cursor"
    /\ LET r == CursorPrev(stack) IN
        /\ r.err = ""
        /\ stack' = r.stack
        /\ Moved("prev", r.stack)
    /\ op' = [name |-> "prev", rel |-> "", key |-> <<0, 0, 0>>]
    /\ UNCHANGED <<nodes, root, cur, blockVars, driverVars>>

NextCursor ==
    \/ \E rel \in Rels, key \in KeyUniverse : Find(rel, key)
    \/ Next_
    \/ Prev_

SpecCursor == InitCursor /\ [][NextCursor]_vars

(***************************************************************************)
(* Properties of SpecCursor                                                *)
(***************************************************************************)

SeqSet(s) == {s[i] : i \in 1..Len(s)}

StrictlyIncreasing(s) == \A i \in 1..(Len(s) - 1) : cmptuple(s[i], s[i + 1]) < 0
StrictlyDecreasing(s) == \A i \in 1..(Len(s) - 1) : cmptuple(s[i], s[i + 1]) > 0

MinKey(S) == CHOOSE x \in S : \A y \in S : cmptuple(x, y) <= 0
MaxKey(S) == CHOOSE x \in S : \A y \in S : cmptuple(x, y) >= 0

\* every generated tree satisfies the branch-key invariant
TreeOK == BranchKeyInvariant

\* C1: on a tree that satisfies the branch-key invariant, a run of next() that starts
\* at eof stands on the leaf keys in strictly increasing order without skipping or
\* repeating one, and is back at eof (empty stack) exactly when it has stood on every
\* leaf key; a run of prev() from eof does the same in strictly decreasing order.
C1_OrderedTraversal ==
    /\ dir = "next" =>
         \/ /\ StrictlyIncreasing(trace)
            /\ IF eof(stack) THEN SeqSet(trace) = LeafKeys
               ELSE /\ trace # <<>>
                    /\ getkey(stack) = trace[Len(trace)]
                    /\ SeqSet(trace) = {k \in LeafKeys : cmptuple(k, getkey(stack)) <= 0}
         \/ ~BranchKeyInvariant
    /\ dir = "prev" =>
         \/ /\ StrictlyDecreasing(trace)
            /\ IF eof(stack) THEN SeqSet(trace) = LeafKeys
               ELSE /\ trace # <<>>
                    /\ getkey(stack) = trace[Len(trace)]
                    /\ SeqSet(trace) = {k \in LeafKeys : cmptuple(k, getkey(stack)) >= 0}
         \/ ~BranchKeyInvariant

\* a forward run over a three-level tree holding every key of the universe has ended
C1_Witness ==
    /\ dir = "next" /\ op.name = "next" /\ eof(stack)
    /\ root.level = MaxDepth - 1
    /\ Len(trace) = NumKeys

\* C2: on a tree that satisfies the branch-key invariant, find('eq', k) returns a
\* cursor that is not at eof and whose getkey() is k when k is a leaf key, and returns
\* None when k is not a leaf key.
C2_FindEq ==
    (op.name = "find" /\ op.rel = "eq") =>
        \/ IF op.key \in LeafKeys
           THEN cur = "cursor" /\ ~eof(stack) /\ getkey(stack) = op.key
           ELSE cur = "None"
        \/ ~BranchKeyInvariant

\* find('eq', k) found k below the second branch of a root of the highest level
C2_Witness ==
    /\ op.name = "find" /\ op.rel = "eq" /\ cur = "cursor"
    /\ root.level = MaxDepth - 1
    /\ Len(stack) = MaxDepth /\ stack[1][2] = 1
    /\ getkey(stack) = op.key

\* C3: on a tree that satisfies the branch-key invariant, find('ge', k) returns a
\* cursor at the smallest leaf key >= k and find('gt', k) at the smallest leaf key > k;
\* the cursor is at eof when there is no such key.
C3_FindGeGt ==
    (op.name = "find" /\ op.rel \in {"ge", "gt"}) =>
        \/ /\ cur = "cursor"
           /\ LET S == {x \in LeafKeys :
                          IF op.rel = "ge" THEN cmptuple(x, op.key) >= 0
                          ELSE cmptuple(x, op.key) > 0}
              IN  IF S = {} THEN eof(stack)
                  ELSE ~eof(stack) /\ getkey(stack) = MinKey(S)
        \/ ~BranchKeyInvariant

\* find('ge', k) for a k greater than the last key of the leaf its descent reached:
\* the cursor stands on the first key of the next leaf
C3_Witness ==
    /\ op.name = "find" /\ op.rel = "ge" /\ cur = "cursor" /\ ~eof(stack)
    /\ LET d == FindDescend(<<>>, root, "", op.key) IN
        /\ d.act = "gt"
        /\ Top(d.stack)[2] = Len(Top(d.stack)[1].branches) - 1
        /\ Top(d.stack)[1] # Top(stack)[1]
        /\ Top(stack)[2] = 0

\* C4: on a tree that satisfies the branch-key invariant of the spec (a branch key may
\* be smaller than the first key of its child), find('lt', k) returns a cursor at the
\* largest leaf key < k and find('le', k) at the largest leaf key <= k whenever the
\* tree holds such a key.
C4_FindLtLe ==
    (op.name = "find" /\ op.rel \in {"lt", "le"} /\ BranchKeyInvariant) =>
        LET S == {x \in LeafKeys :
                    IF op.rel = "le" THEN cmptuple(x, op.key) <= 0
                    ELSE cmptuple(x, op.key) < 0}
        IN  S # {} => (cur = "cursor" /\ ~eof(stack) /\ getkey(stack) = MaxKey(S))

(***************************************************************************)
(* SpecScan: the construction of UbiBlocks on one image, block by block,   *)
(* and readvolume on the constructed object                                *)
(***************************************************************************)

NumPebs == 3       \* most physical erase blocks of an image
MaxLnum == 1       \* logical erase block numbers 0..MaxLnum

\* the volume ids of the VID headers: one data volume and the volume table
VolIds == {0, VTBL_VOLID}

\* a valid EC header; ec.data_ofs is 4096 in every block of the images
GoodEc == [magic_ok |-> TRUE, crc_ok |-> TRUE, data_ofs |-> 4096]
GoodVid(v, l) == [magic_ok |-> TRUE, crc_ok |-> TRUE, vol_id |-> v, lnum |-> l]

\* the volume table of the images of SpecScan: one volume, in slot 0
OneVolume ==
    <<[parsed |-> TRUE, crc_ok |-> TRUE, reserved_pebs |-> 1, name |-> "rootfs"]>>

\* a PEB: its headers, its volume table records and the ubifs nodes in it by offset
MkPeb(ec, vid) ==
    [ec |-> ec, vid |-> vid,
     recs |-> IF vid.vol_id = VTBL_VOLID THEN OneVolume ELSE <<>>,
     nodes |-> EmptyMap]

\* the erase blocks: a wrong EC magic or crc (the VID header is then never read),
\* a wrong VID magic or crc (an erased block), or both headers valid
PebKinds ==
    {MkPeb([GoodEc EXCEPT !.magic_ok = FALSE], GoodVid(0, 0)),
     MkPeb([GoodEc EXCEPT !.crc_ok = FALSE], GoodVid(0, 0)),
     MkPeb(GoodEc, [GoodVid(0, 0) EXCEPT !.magic_ok = FALSE]),
     MkPeb(GoodEc, [GoodVid(0, 0) EXCEPT !.crc_ok = FALSE])}
    \cup {MkPeb(GoodEc, GoodVid(v, l)) : v \in VolIds, l \in 0..MaxLnum}

\* find_blocksize reads the magic of block 0 at offset 0 and finds the blocksize
\* where the magic of block 1 is
ImageOK(image) ==
    /\ image.magic = image.pebs[1].ec.magic_ok
    /\ (image.lebsize # 0 /\ Len(image.pebs) >= 2) => image.pebs[2].ec.magic_ok

InitScan ==
    /\ \E n \in 1..NumPebs :
         \E pebs \in [1..n -> PebKinds], ls \in {0, 2 ^ 10} :
            /\ img = [magic |-> pebs[1].ec.magic_ok, lebsize |-> ls, pebs |-> pebs]
            /\ ImageOK(img)
    /\ blks = NewBlocks
    /\ bpc = "find_blocksize"
    /\ scanlnum = 0
    /\ rv = [volid |-> 0, lnum |-> 0, res |-> "none"]
    /\ CursorIdle
    /\ DriverIdle

\* lines 119-123: self.lebsize = self.find_blocksize(); self.maxlebs = ...
FindBlocksize ==
    /\ bpc = "find_blocksize"
    /\ LET f == find_blocksize(img) IN
         IF f.err # ""
         THEN /\ blks' = [blks EXCEPT !.err = f.err]
              /\ bpc' = "failed"
         ELSE /\ blks' = [blks EXCEPT !.lebsize = f.lebsize, !.maxlebs = Len(img.pebs),
                                      !.attrs = {"lebsize", "maxlebs", "vmap"}]
              /\ bpc' = "scanblocks"
    /\ UNCHANGED <<img, scanlnum, rv, cursorVars, driverVars>>

\* one iteration of the loop of scanblocks
ScanBlock ==
    /\ bpc = "scanblocks"
    /\ scanlnum < blks.maxlebs
    /\ blks' = [blks EXCEPT !.vmap = ScanStep(blks.vmap, img.pebs, scanlnum)]
    /\ scanlnum' = scanlnum + 1
    /\ UNCHANGED <<img, bpc, rv, cursorVars, driverVars>>

\* the loop of scanblocks ends
ScanEnd ==
    /\ bpc = "scanblocks"
    /\ scanlnum >= blks.maxlebs
    /\ bpc' = "scanned"
    /\ UNCHANGED <<img, blks, scanlnum, rv, cursorVars, driverVars>>

\* lines 127-132: the volume table
LoadVtbl ==
    /\ bpc = "scanned"
    /\ blks' = AfterScan(blks, img.pebs)
    /\ bpc' = IF blks'.err # "" THEN "failed" ELSE "constructed"
    /\ UNCHANGED <<img, scanlnum, rv, cursorVars, driverVars>>

\* readvolume, lines 226-230: self.vmap[volid] makes an empty map for a new volid
readvolume(b, volid, lnum) ==
    LET vm == IF volid \in DOMAIN b.vmap THEN b.vmap
              ELSE (volid :> [x \in {} |-> 0]) @@ b.vmap
    IN  IF lnum \in DOMAIN vm[volid]
        THEN [vmap |-> vm, err |-> "", physlnum |-> vm[volid][lnum]]
        ELSE [vmap |-> vm, err |-> "volume does not contain lnum", physlnum |-> 0]

ReadVolume(volid, lnum) ==
    /\ bpc = "constructed"
    /\ LET r == readvolume(blks, volid, lnum) IN
         /\ blks' = [blks EXCEPT !.vmap = r.vmap]
         /\ rv' = [volid |-> volid, lnum |-> lnum,
                   res |-> IF r.err = "" THEN "data" ELSE "error"]
    /\ UNCHANGED <<img, bpc, scanlnum, cursorVars, driverVars>>

\* the volume ids readvolume is called with: those of the headers and one more
ReadVolIds == VolIds \cup {1}

NextScan ==
    \/ FindBlocksize
    \/ ScanBlock
    \/ ScanEnd
    \/ LoadVtbl
    \/ \E volid \in ReadVolIds, lnum \in 0..MaxLnum : ReadVolume(volid, lnum)

SpecScan == InitScan /\ [][NextScan]_vars

(***************************************************************************)
(* Properties of SpecScan                                                  *)
(***************************************************************************)

\* the physical blocks whose EC and VID headers both parse, with vol_id v and lnum l
ValidBlocks(v, l) ==
    {p \in 0..(Len(img.pebs) - 1) :
        /\ EcParses(img.pebs[p + 1]) /\ VidParses(img.pebs[p + 1])
        /\ img.pebs[p + 1].vid.vol_id = v /\ img.pebs[p + 1].vid.lnum = l}

Mapped(v, l) == v \in DOMAIN blks.vmap /\ l \in DOMAIN blks.vmap[v]

\* C5: when scanblocks has finished, vmap[v][l] = p exactly when p is the highest
\* physical block in 0 .. maxlebs-1 whose EC and VID headers pass their magic and crc
\* checks with vol_id v and lnum l; blocks that fail a check add nothing and the
\* blocks after them are still scanned.
C5_ScanMap ==
    bpc = "scanned" =>
        /\ blks.maxlebs = Len(img.pebs)
        /\ \A v \in DOMAIN blks.vmap : v \in VolIds /\ DOMAIN blks.vmap[v] # {}
        /\ \A v \in VolIds, l \in 0..MaxLnum :
             IF ValidBlocks(v, l) = {} THEN ~Mapped(v, l)
             ELSE /\ Mapped(v, l)
                  /\ blks.vmap[v][l] \in ValidBlocks(v, l)
                  /\ \A p \in ValidBlocks(v, l) : p <= blks.vmap[v][l]

\* a scan over two valid blocks of one (vol_id, lnum) with a failing block between them
C5_Witness ==
    /\ bpc = "scanned"
    /\ Len(img.pebs) = NumPebs
    /\ ValidBlocks(0, 0) = {0, NumPebs - 1}
    /\ \E p \in 1..(NumPebs - 2) : ~VidParses(img.pebs[p + 1])
    /\ blks.vmap[0][0] = NumPebs - 1

(***************************************************************************)
(* Trees with leaf nodes.  items is the sequence of [key, node] of the     *)
(* leaves in key order; the index above it has at most fan branches per    *)
(* node and takes each branch key from the first key of the child.         *)
(***************************************************************************)

CeilDiv(a, b) == (a + b - 1) \div b

\* the number of index levels over n leaves
RECURSIVE PackLevels(_, _)
PackLevels(n, fan) == IF n <= fan THEN 1 ELSE 1 + PackLevels(CeilDiv(n, fan), fan)

\* the number of nodes of level l (level -1: the leaves)
PackCount(n, fan, l) == CeilDiv(n, fan ^ (l + 1))

\* the parsed index node j of level l
PackNode(items, fan, l, j) ==
    LET cnt == PackCount(Len(items), fan, l - 1)
        hi  == IF j * fan < cnt THEN j * fan ELSE cnt
    IN  [ntype |-> 9, crc_ok |-> TRUE, level |-> l,
         branches |->
            [i \in 1..(hi - (j - 1) * fan) |->
                LET child == (j - 1) * fan + i IN
                [lnum |-> IF l = 0 THEN LeafLnum ELSE IdxLnum(l - 1),
                 offs |-> child,
                 key  |-> packkey(items[(child - 1) * (fan ^ l) + 1].key)]]]

PackNodes(items, fan) ==
    LET n == Len(items)
        L == PackLevels(n, fan)
    IN  [a \in {<<LeafLnum, i>> : i \in 1..n}
               \cup UNION {{<<IdxLnum(l), j>> : j \in 1..PackCount(n, fan, l)} :
                           l \in 0..(L - 1)}
           |-> IF a[1] = LeafLnum THEN items[a[2]].node
               ELSE PackNode(items, fan, a[1] - IdxLnum(0), a[2])]

PackRoot(items, fan) == PackNode(items, fan, PackLevels(Len(items), fan) - 1, 1)

(***************************************************************************)
(* SpecSave: savefile on one volume that holds two regular files.  The     *)
(* file that is saved has any inode size of SaveSizes and any set of data  *)
(* nodes at the block indexes 0..MaxBlock, each of a length of DataLens.   *)
(***************************************************************************)

MaxBlock == 1      \* block indexes 0..MaxBlock

SaveInums == {1, 2}

SaveSizes == {0, 1, UBIFS_BLOCKSIZE, UBIFS_BLOCKSIZE + 1, 2 * UBIFS_BLOCKSIZE}

DataLens == {0, 1, UBIFS_BLOCKSIZE}

InodeNode(size) == [ntype |-> 0, crc_ok |-> TRUE, size |-> size, len |-> 0]
DataNode(len) == [ntype |-> 1, crc_ok |-> TRUE, len |-> len]

\* the leaves of one file: its inode, then its data nodes by block index; data maps
\* the block indexes that have a data node to the node's length
FileItems(inum, size, data) ==
    <<[key |-> <<inum, 0, 0>>, node |-> InodeNode(size)]>>
    \o [i \in 1..Cardinality(DOMAIN data) |->
          LET b == CHOOSE x \in DOMAIN data :
                      Cardinality({y \in DOMAIN data : y < x}) = i - 1
          IN  [key |-> <<inum, 1, b>>, node |-> DataNode(data[b])]]

\* the other file of the volume: one byte in block 0
OtherFile(inum) == FileItems(inum, 1, (0 :> 1))

InitSave ==
    /\ \E target \in SaveInums, size \in SaveSizes, fan \in {2, 3} :
         \E blocks \in SUBSET (0..MaxBlock) :
            \E data \in [blocks -> DataLens] :
               \E items \in {IF target = 1
                              THEN FileItems(1, size, data) \o OtherFile(2)
                              ELSE OtherFile(1) \o FileItems(2, size, data)} :
                  /\ nodes = PackNodes(items, fan)
                  /\ root = PackRoot(items, fan)
    /\ stack = <<>>
    /\ cur = "None"
    /\ op = NoOp
    /\ dir = "none"
    /\ trace = <<>>
    /\ BlocksIdle
    /\ sv = NoSave
    /\ fsr = NoCall
    /\ MainIdle

\* fs.savefile(inum, fh, ubiname) with fh a new, empty file
SaveFile(inum) ==
    /\ sv.res = "none"
    /\ LET Saved(r) == [inum |-> inum, res |-> IF r.err = "" THEN "done" ELSE "raised",
                         len |-> r.len]
       IN  sv' = Saved(savefile(inum))
    /\ UNCHANGED <<cursorVars, blockVars, fsr, mainVars>>

NextSave == \E inum \in SaveInums : SaveFile(inum)

SpecSave == InitSave /\ [][NextSave]_vars

(***************************************************************************)
(* Properties of SpecSave                                                  *)
(***************************************************************************)

\* the leaves of the tree: what each branch of a level-0 index node points to
LeafEntries ==
    UNION {{[key |-> unpackkey(b.key), node |-> nodes[<<b.lnum, b.offs>>]] :
              b \in Range(nodes[a].branches)} :
           a \in {x \in DOMAIN nodes : IsIndex(x) /\ nodes[x].level = 0}}

DataEntries(inum) == {e \in LeafEntries : e.key[1] = inum /\ e.key[2] = 1}

InodeSize(inum) == (CHOOSE e \in LeafEntries : e.key = <<inum, 0, 0>>).node.size

RECURSIVE SumLen(_)
SumLen(S) == IF S = {} THEN 0
             ELSE LET e == CHOOSE x \in S : TRUE IN e.node.len + SumLen(S \ {e})

\* the bytes in all data nodes of the file, and the end of its last written byte
TotalData(inum) == SumLen(DataEntries(inum))
Extent(inum) ==
    Max({0} \cup {UBIFS_BLOCKSIZE * e.key[3] + e.node.len :
                    e \in {d \in DataEntries(inum) : d.node.len > 0}})

\* C6 as stated: after savefile completes on an empty sink, the length of the sink is
\* the inode's size, whatever data nodes the file has.
C6_SinkLenIsSize ==
    sv.res = "done" => sv.len = InodeSize(sv.inum)

\* C6 amended: after savefile completes on an empty sink, the length of the sink is
\* the inode's size when the data nodes of the file hold fewer bytes in total than
\* the inode's size (holes, and data beyond the size, included); otherwise the sink
\* is left as written and ends where its last written byte ends.
C6_SinkLen ==
    sv.res = "done" =>
        sv.len = IF TotalData(sv.inum) < InodeSize(sv.inum) THEN InodeSize(sv.inum)
                 ELSE Extent(sv.inum)

\* a saved file with a hole at block 0 and data that ends beyond the inode's size,
\* cut to the size
C6_Witness ==
    /\ sv.res = "done"
    /\ DataEntries(sv.inum) # {}
    /\ \A e \in DataEntries(sv.inum) : e.key[3] > 0
    /\ TotalData(sv.inum) < InodeSize(sv.inum)
    /\ Extent(sv.inum) > InodeSize(sv.inum)
    /\ sv.len = InodeSize(sv.inum)

(***************************************************************************)
(* The image files of SpecMain.  A file name is a record that says what is *)
(* in the file: kind "ok" is an image of nvol volumes, each with the ubifs  *)
(* tree of MainItems; the other kinds differ from it in one place.          *)
(***************************************************************************)

NameA == <<97>>
NameB == <<98>>
NameC == <<99>>
NameD == <<100>>

DirentNode(inum, type, name) ==
    [ntype |-> 2, crc_ok |-> TRUE, inum |-> inum, type |-> type, name |-> name]

DirentItem(parent, inum, type, name) ==
    [key |-> <<parent, 2, namehash(name)>>, node |-> DirentNode(inum, type, name)]

\* the leaves of a volume in key order: / holds the regular files a (inode 2) and
\* b (inode 3) and the directory d (inode 4), which holds the regular file c (inode 5)
MainItems ==
    FileItems(1, 0, EmptyMap)
    \o <<DirentItem(1, 2, TYPE_REGULAR, NameA), DirentItem(1, 3, TYPE_REGULAR, NameB),
         DirentItem(1, 4, TYPE_DIRECTORY, NameD)>>
    \o FileItems(2, 1, (0 :> 1))
    \o FileItems(3, 1, (0 :> 1))
    \o FileItems(4, 0, EmptyMap)
    \o <<DirentItem(4, 5, TYPE_REGULAR, NameC)>>
    \o FileItems(5, 1, (0 :> 1))

\* the nodes of a volume: superblock at (0, 0), one master node at (1, 0), the
\* tree of MainItems with four branches to a node
GoodStore ==
    LET L == PackLevels(Len(MainItems), 4) IN
    (<<0, 0>> :> [ntype |-> 6, crc_ok |-> TRUE])
    @@ (<<1, 0>> :> [ntype |-> 7, crc_ok |-> TRUE,
                     root_lnum |-> IdxLnum(L - 1), root_offs |-> 1])
    @@ PackNodes(MainItems, 4)

\* the node at addr fails its crc
Corrupt(store, addr) == [store EXCEPT ![addr].crc_ok = FALSE]

SortedSeq(S) ==
    [i \in 1..Cardinality(S) |->
        CHOOSE x \in S : Cardinality({y \in S : y < x}) = i - 1]

\* the PEBs of volume v: one per LEB that holds nodes, in LEB order
VolPebs(v, store) ==
    LET lnums == SortedSeq({a[1] : a \in DOMAIN store}) IN
    [i \in 1..Len(lnums) |->
        [ec |-> GoodEc, vid |-> GoodVid(v, lnums[i]), recs |-> <<>>,
         nodes |-> [o \in {a[2] : a \in {x \in DOMAIN store : x[1] = lnums[i]}} |->
                       store[<<lnums[i], o>>]]]]

VolName(v) == IF v = 0 THEN "rootfs" ELSE "data"

\* the PEB of the volume table, with one record per volume
VtblPeb(nvol) ==
    [ec |-> GoodEc, vid |-> GoodVid(VTBL_VOLID, 0),
     recs |-> [i \in 1..nvol |-> [parsed |-> TRUE, crc_ok |-> TRUE,
                                  reserved_pebs |-> 1, name |-> VolName(i - 1)]],
     nodes |-> EmptyMap]

FileName(kind, nvol, vol, addr) ==
    [kind |-> kind, nvol |-> nvol, vol |-> vol, addr |-> addr]

\* addresses in GoodStore: the data nodes of a, b and c with the path of their file
DataPaths ==
    (<<LeafLnum, 6>> :> <<NameA>>) @@ (<<LeafLnum, 8>> :> <<NameB>>)
    @@ (<<LeafLnum, 12>> :> <<NameD, NameC>>)

SbAddr == <<0, 0>>
RootAddr == <<IdxLnum(1), 1>>
IndexChildAddr == <<IdxLnum(0), 2>>     \* holds the leaves 5..8: inodes 2 and 3
InodeBAddr == <<LeafLnum, 7>>
DirentBAddr == <<LeafLnum, 3>>

FileNames ==
    {FileName("ok", 1, 0, SbAddr), FileName("nofile", 1, 0, SbAddr),
     FileName("magic", 1, 0, SbAddr), FileName("lebsize", 1, 0, SbAddr),
     FileName("novtbl", 1, 0, SbAddr)}
    \cup {FileName("crc", 1, 0, a) :
            a \in {SbAddr, RootAddr, IndexChildAddr, InodeBAddr, DirentBAddr}
                  \cup DOMAIN DataPaths}
    \cup {FileName("crc", 2, 0, <<LeafLnum, 6>>)}

FileExists(fn) == fn.kind # "nofile"

\* images whose volume table is not dense: "sparse" has its one volume in record
\* 1, "gap" has volumes in the records 0 and 2, "vtblcrc" has its volume in record
\* 0 and a record with a wrong crc after it
TableKinds == {"sparse", "gap", "vtblcrc"}

\* the volume ids that have a record and PEBs in the image
VolIdsOf(fn) ==
    IF fn.kind = "sparse" THEN {1}
    ELSE IF fn.kind = "gap" THEN {0, 2}
    ELSE 0..(fn.nvol - 1)

\* the records of the volume table, from index 0 on
VtblRecs(fn) ==
    [i \in 1..(Max(VolIdsOf(fn)) + 1) |->
        IF i - 1 \in VolIdsOf(fn)
        THEN [parsed |-> TRUE, crc_ok |-> TRUE, reserved_pebs |-> 1,
              name |-> VolName(i - 1)]
        ELSE [parsed |-> TRUE, crc_ok |-> TRUE, reserved_pebs |-> 0, name |-> ""]]
    \o (IF fn.kind = "vtblcrc"
        THEN <<[parsed |-> TRUE, crc_ok |-> FALSE, reserved_pebs |-> 1, name |-> "data"]>>
        ELSE <<>>)

\* the image in the file fn
FileContent(fn) ==
    LET store(v) == IF fn.kind = "crc" /\ fn.vol = v THEN Corrupt(GoodStore, fn.addr)
                    ELSE GoodStore
        vols == SortedSeq(VolIdsOf(fn))
        pebs == (IF fn.kind = "novtbl" THEN <<>>
                 ELSE IF fn.kind \in TableKinds
                 THEN <<[VtblPeb(fn.nvol) EXCEPT !.recs = VtblRecs(fn)]>>
                 ELSE <<VtblPeb(fn.nvol)>>)
                \o VolPebs(vols[1], store(vols[1]))
                \o (IF Len(vols) = 2 THEN VolPebs(vols[2], store(vols[2])) ELSE <<>>)
    IN  [magic |-> fn.kind # "magic",
         lebsize |-> IF fn.kind = "lebsize" THEN 0 ELSE Pow2(17),
         pebs |-> IF fn.kind = "magic"
                  THEN [pebs EXCEPT ![1].ec.magic_ok = FALSE] ELSE pebs]

(***************************************************************************)
(* SpecMain: main and processfile  (src/ubidump.py 868-945)                 *)
(* out holds one record per file reached: [fn, err, done, nvol, vols]; err  *)
(* is the exception main printed for it, done says that processfile         *)
(* returned, and vols holds per volume reached [name, loaded, dumped,       *)
(* saved, listed].                                                          *)
(***************************************************************************)

MaxFiles == 2      \* most files on the command line

ArgSets == {{"s"}, {"l"}, {"d", "l"}, {"v", "d", "s", "l"}}

\* the nodes vol.read reaches for volume volid: those of the PEBs that vmap maps
\* its LEBs to (readvolume, lines 226-230)
VolNodes(b, image, volid) ==
    IF volid \notin DOMAIN b.vmap THEN EmptyMap
    ELSE LET vm == b.vmap[volid] IN
         [a \in UNION {{<<l, o>> : o \in DOMAIN image.pebs[vm[l] + 1].nodes} :
                       l \in DOMAIN vm}
             |-> image.pebs[vm[a[1]] + 1].nodes[a[2]]]

\* dumpvtbl, lines 209-216, reads self.ec, self.vid and self.vtbl
dumpvtblOK(b) == {"ec", "vid", "vtbl"} \subseteq b.attrs

NewOut(fn) == [fn |-> fn, err |-> "", done |-> FALSE, nvol |-> 0, vols |-> <<>>]

NewVolOut(name) ==
    [name |-> name, loaded |-> FALSE, dumped |-> <<>>, saved |-> <<>>, listed |-> <<>>]

\* main when processfile raises and nothing catches it: the program ends
MainExceptAbort(m) == [m EXCEPT !.pc = "exit"]

\* lines 941-945: except Exception: print the error; the loop goes on
MainExcept(m) == [m EXCEPT !.pc = "loop", !.fi = m.fi + 1]

\* an exception e leaves processfile and reaches main
Raise(o, e) ==
    /\ out' = [o EXCEPT ![mpc.fi].err = e]
    /\ mpc' = MainExcept(mpc)

mainRest == <<stack, cur, op, dir, trace, bpc, scanlnum, rv, sv, fsr, files, args>>

InitMain ==
    /\ \E n \in 1..MaxFiles : files \in [1..n -> FileNames]
    /\ args \in ArgSets
    /\ mpc = [pc |-> "loop", fi |-> 1, volid |-> 0, nvol |-> 0]
    /\ out = <<>>
    /\ CursorIdle
    /\ BlocksIdle
    /\ sv = NoSave
    /\ fsr = NoCall

\* lines 937-939: for fn in args.FILES: print the name, call processfile
MainLoop ==
    /\ mpc.pc = "loop"
    /\ IF mpc.fi > Len(files)
       THEN /\ mpc' = [mpc EXCEPT !.pc = "exit"]
            /\ UNCHANGED <<out, img>>
       ELSE /\ mpc' = [mpc EXCEPT !.pc = "processfile"]
            /\ out' = Append(out, NewOut(files[mpc.fi]))
            /\ img' = IF FileExists(files[mpc.fi]) THEN FileContent(files[mpc.fi])
                      ELSE img
    /\ UNCHANGED <<nodes, root, blks, mainRest>>

\* lines 872-878: open the file, construct UbiBlocks, dumpvtbl with -v, and
\* evaluate range(blks.nr_volumes())
PfOpen ==
    /\ mpc.pc = "processfile"
    /\ IF ~FileExists(files[mpc.fi])
       THEN /\ Raise(out, "IOError")
            /\ UNCHANGED blks
       ELSE LET Opened(b, n) ==
                    /\ blks' = b
                    /\ IF b.err # "" THEN Raise(out, b.err)
                       ELSE IF "v" \in args /\ ~dumpvtblOK(b)
                       THEN Raise(out, "AttributeError")
                       ELSE IF n.err # "" THEN Raise(out, n.err)
                       ELSE /\ mpc' = [mpc EXCEPT !.pc = "volume", !.volid = 0,
                                                  !.nvol = n.n]
                            /\ out' = [out EXCEPT ![mpc.fi].nvol = n.n]
                Constructed(b) == Opened(b, nr_volumes(b))
            IN  Constructed(UbiBlocksInit(img))
    /\ UNCHANGED <<img, nodes, root, mainRest>>

\* lines 878-882: the next volid of the range, getvrec, getvolume, print the name
PfVolume ==
    /\ mpc.pc = "volume"
    /\ IF mpc.volid >= mpc.nvol
       THEN /\ mpc' = [mpc EXCEPT !.pc = "loop", !.fi = mpc.fi + 1]
            /\ out' = [out EXCEPT ![mpc.fi].done = TRUE]
            /\ UNCHANGED nodes
       ELSE IF mpc.volid >= Len(blks.vtbl)
       THEN /\ Raise(out, "IndexError")
            /\ UNCHANGED nodes
       ELSE IF ~blks.vtbl[mpc.volid + 1].parsed \/ "ec" \notin blks.attrs
       THEN /\ Raise(out, "AttributeError")
            /\ UNCHANGED nodes
       ELSE /\ nodes' = VolNodes(blks, img, mpc.volid)
            /\ out' = [out EXCEPT ![mpc.fi].vols =
                                     Append(@, NewVolOut(blks.vtbl[mpc.volid + 1].name))]
            /\ mpc' = [mpc EXCEPT !.pc = "load"]
    /\ UNCHANGED <<img, root, blks, mainRest>>

\* line 884: fs = UbiFs(vol), which loads the superblock, the master and the root;
\* the first read through self.vmap[volid] stores volid in vmap
PfLoad ==
    /\ mpc.pc = "load"
    /\ blks' = [blks EXCEPT !.vmap = readvolume(blks, mpc.volid, 0).vmap]
    /\ LET Loaded(r) ==
               IF r.err # ""
               THEN /\ Raise(out, r.err)
                    /\ UNCHANGED root
               ELSE /\ root' = r.root
                    /\ out' = [out EXCEPT ![mpc.fi].vols[mpc.volid + 1].loaded = TRUE]
                    /\ mpc' = [mpc EXCEPT !.pc = "dumptree"]
       IN  Loaded(UbiFsLoad)
    /\ UNCHANGED <<img, nodes, mainRest>>

\* lines 887-888: if args.dumptree: fs.printrecursive(fs.root)
PfDumpTree ==
    /\ mpc.pc = "dumptree"
    /\ mpc' = [mpc EXCEPT !.pc = "savedir"]
    /\ out' = IF "d" \in args
              THEN [out EXCEPT ![mpc.fi].vols[mpc.volid + 1].dumped = printrecursive(root)]
              ELSE out
    /\ UNCHANGED <<img, nodes, root, blks, mainRest>>

\* lines 889-903: if args.savedir: save every regular file
PfSaveDir ==
    /\ mpc.pc = "savedir"
    /\ IF "s" \notin args
       THEN /\ mpc' = [mpc EXCEPT !.pc = "listfiles"]
            /\ UNCHANGED out
       ELSE LET Saved(r, o2) ==
                    IF r.err # "" THEN Raise(o2, r.err)
                    ELSE /\ mpc' = [mpc EXCEPT !.pc = "listfiles"]
                         /\ out' = o2
                Walked(r) ==
                    Saved(r, [out EXCEPT ![mpc.fi].vols[mpc.volid + 1].saved = r.done])
            IN  Walked(savedir(1))
    /\ UNCHANGED <<img, nodes, root, blks, mainRest>>

\* lines 904-920: if args.listfiles: list every entry; then the next volume
PfListFiles ==
    /\ mpc.pc = "listfiles"
    /\ IF "l" \notin args
       THEN /\ mpc' = [mpc EXCEPT !.pc = "volume", !.volid = mpc.volid + 1]
            /\ UNCHANGED out
       ELSE LET Listed(r, o2) ==
                    IF r.err # "" THEN Raise(o2, r.err)
                    ELSE /\ mpc' = [mpc EXCEPT !.pc = "volume",
                                               !.volid = mpc.volid + 1]
                         /\ out' = o2
                Walked(r) ==
                    Listed(r, [out EXCEPT ![mpc.fi].vols[mpc.volid + 1].listed = r.done])
            IN  Walked(listfiles(1))
    /\ UNCHANGED <<img, nodes, root, blks, mainRest>>

NextMain ==
    \/ MainLoop
    \/ PfOpen
    \/ PfVolume
    \/ PfLoad
    \/ PfDumpTree
    \/ PfSaveDir
    \/ PfListFiles

SpecMain == InitMain /\ [][NextMain]_vars

(***************************************************************************)
(* Properties of SpecMain                                                  *)
(***************************************************************************)

AtExit == mpc.pc = "exit"

FileIdx == 1..Len(files)

\* the paths of the regular files of a volume, and of all its entries
RegularPaths == Range(DataPaths)
AllPaths == RegularPaths \cup {<<NameD>>}

SavedPaths(vo) == {vo.saved[k].path : k \in 1..Len(vo.saved)}

\* C7: main attempts every file of the command line in order; for each it either
\* prints the error that processing raised or processfile returns; an unreadable
\* file, a wrong magic, an unknown LEB size, an unreadable superblock or root and a
\* data node crc error under -s are errors, after which the next file is still
\* processed, and the same file gives the same outcome wherever it stands.
C7_MainContinues ==
    AtExit =>
        /\ Len(out) = Len(files)
        /\ \A i \in FileIdx :
             /\ out[i].fn = files[i]
             /\ (out[i].err # "") # out[i].done
             /\ files[i].kind \in {"nofile", "magic", "lebsize"}
                    => out[i].err # "" /\ out[i].vols = <<>>
             /\ (files[i].kind = "crc" /\ files[i].addr \in {SbAddr, RootAddr})
                    => out[i].err # ""
             /\ (files[i].kind = "crc" /\ files[i].addr \in DOMAIN DataPaths
                    /\ "s" \in args) => out[i].err # ""
             /\ files[i].kind = "ok" => out[i].done
             /\ \A j \in FileIdx : files[j] = files[i] => out[j] = out[i]

\* a file with a node crc error, reported, followed by an image that is processed
\* to the end and extracted
C7_Witness ==
    /\ AtExit
    /\ Len(files) = 2
    /\ files[1].kind = "crc" /\ out[1].err # ""
    /\ files[2].kind = "ok" /\ out[2].done
    /\ SavedPaths(out[2].vols[1]) = RegularPaths

\* C8: in a -s run on an image in which one data node of one regular file has a
\* wrong crc, savefile on that file fails and every other regular file of every
\* volume of the image is extracted.
C8_OthersExtracted ==
    (AtExit /\ "s" \in args) =>
        \A i \in FileIdx :
            (files[i].kind = "crc" /\ files[i].addr \in DOMAIN DataPaths) =>
                /\ out[i].err # ""
                /\ \A v \in 0..(files[i].nvol - 1), p \in RegularPaths :
                      \/ v = files[i].vol /\ p = DataPaths[files[i].addr]
                      \/ /\ Len(out[i].vols) > v
                         /\ p \in SavedPaths(out[i].vols[v + 1])

\* the entries that need the node at addr: the leaves below an index node in the
\* dump, and the paths whose dirent or inode is it or lies below it in the listing
BelowAddr(addr) ==
    IF "branches" \in DOMAIN GoodStore[addr]
    THEN {<<b.lnum, b.offs>> : b \in Range(GoodStore[addr].branches)}
    ELSE {}

AffectedPaths ==
    (IndexChildAddr :> {<<NameA>>, <<NameB>>}) @@ (InodeBAddr :> {<<NameB>>})
    @@ (DirentBAddr :> {<<NameB>>})

\* C9: with -d, a node that cannot be read gives one ERROR for its branch and every
\* other branch is dumped; with -l, an index node, dirent or inode that cannot be
\* read is reported for its entries only, every other entry is listed and the
\* listing goes on to its end.
C9_PerEntry ==
    (AtExit /\ "s" \notin args) =>
        \A i \in FileIdx :
            (files[i].kind = "crc" /\ files[i].addr \in DOMAIN AffectedPaths) =>
                LET vo == out[i].vols[1]
                    a  == files[i].addr
                IN  /\ "d" \in args =>
                          /\ {e \in Range(vo.dumped) : e.res = "ERROR"}
                                = {[lnum |-> a[1], offs |-> a[2], res |-> "ERROR"]}
                          /\ \A x \in DOMAIN PackNodes(MainItems, 4)
                                        \ ({a, RootAddr} \cup BelowAddr(a)) :
                                [lnum |-> x[1], offs |-> x[2], res |-> "ok"]
                                    \in Range(vo.dumped)
                    /\ "l" \in args =>
                          /\ out[i].done
                          /\ \A p \in AllPaths \ AffectedPaths[a] :
                                p \in Range(vo.listed)

\* an image that find_blocksize accepts and in which no PEB with valid headers has
\* the volume id of the volume table
NoVtblImage(fn) ==
    /\ FileExists(fn)
    /\ find_blocksize(FileContent(fn)).err = ""
    /\ \A k \in 1..Len(FileContent(fn).pebs) :
          LET peb == FileContent(fn).pebs[k] IN
          ~(EcParses(peb) /\ VidParses(peb) /\ peb.vid.vol_id = VTBL_VOLID)

\* C10: an image without a volume table block is processed as an image of no
\* volumes: nr_volumes() is 0 and processfile returns without an error.
C10_NoVtblNoVolumes ==
    AtExit =>
        \A i \in FileIdx :
            NoVtblImage(files[i]) =>
                out[i].err = "" /\ out[i].done /\ out[i].nvol = 0 /\ out[i].vols = <<>>

(***************************************************************************)
(* SpecDir: findfile and recursefiles on the directory trees of one volume. *)
(* The root directory (inode 1) holds any of the names of RootNames, as      *)
(* regular files or directories; every directory below it holds the same     *)
(* set of the names of SubNames, as regular files.  "al" and "ba" have the   *)
(* same namehash, and two dirents of one directory with the same key stand   *)
(* in either order in the leaves.                                            *)
(***************************************************************************)

NameAL == <<97, 108>>
NameBA == <<98, 97>>

MaxPathLen == 2     \* most components of a path given to findfile

RootNames == <<NameA, NameAL, NameBA, NameD>>
SubNames == <<NameAL, NameBA, NameB>>

\* the types the root entry k may have
RootTypes(k) ==
    IF RootNames[k] = NameA THEN {TYPE_REGULAR}
    ELSE IF RootNames[k] = NameD THEN {TYPE_DIRECTORY}
    ELSE {TYPE_REGULAR, TYPE_DIRECTORY}

\* the entries of a directory, each [name, inum, type]: rt maps the indexes of
\* the root's names to their types, T is the set of indexes of the names below p
RootEnts(rt) ==
    {[name |-> RootNames[k], inum |-> 1 + k, type |-> rt[k]] : k \in DOMAIN rt}

SubEnts(p, T) ==
    {[name |-> SubNames[j], inum |-> 10 * p + j, type |-> TYPE_REGULAR] : j \in T}

\* the dirent leaves of directory parent in key order; last decides which of two
\* entries with the same key comes later
DirentSeq(parent, ents, last) ==
    LET Before(x, y) ==
            \/ namehash(x.name) < namehash(y.name)
            \/ /\ namehash(x.name) = namehash(y.name)
               /\ x # y
               /\ y.name = last
    IN  [i \in 1..Cardinality(ents) |->
            LET e == CHOOSE x \in ents :
                        Cardinality({y \in ents : Before(y, x)}) = i - 1
            IN  DirentItem(parent, e.inum, e.type, e.name)]

RECURSIVE Flatten(_)
Flatten(seqs) == IF seqs = <<>> THEN <<>> ELSE Head(seqs) \o Flatten(Tail(seqs))

\* the leaves of the inode inum: a directory's inode and dirents, a regular
\* file's inode and one data node
DirItems(inum, ents, last) == FileItems(inum, 0, EmptyMap) \o DirentSeq(inum, ents, last)

EntItems(e, T, last) ==
    IF e.type = TYPE_DIRECTORY THEN DirItems(e.inum, SubEnts(e.inum, T), last)
    ELSE FileItems(e.inum, 1, (0 :> 1))

\* all leaves of the volume in key order
TreeItems(rt, T, last) ==
    LET top == SortedSeq(DOMAIN rt)
        dirs == SortedSeq({k \in DOMAIN rt : rt[k] = TYPE_DIRECTORY})
        subs == SortedSeq(T)
    IN  DirItems(1, RootEnts(rt), last)
        \o Flatten([i \in 1..Len(top) |->
                      EntItems([name |-> RootNames[top[i]], inum |-> 1 + top[i],
                                type |-> rt[top[i]]], T, last)])
        \o Flatten([i \in 1..Len(dirs) |->
                      Flatten([j \in 1..Len(subs) |->
                                 FileItems(10 * (1 + dirs[i]) + subs[j], 1, (0 :> 1))])])

\* whether some directory of the tree holds both "al" and "ba"
HasCollision(rt, T) ==
    \/ \E k1, k2 \in DOMAIN rt : RootNames[k1] = NameAL /\ RootNames[k2] = NameBA
    \/ /\ \E k \in DOMAIN rt : rt[k] = TYPE_DIRECTORY
       /\ \E j1, j2 \in T : SubNames[j1] = NameAL /\ SubNames[j2] = NameBA

PathNames == {NameA, NameAL, NameBA, NameB, NameD}

RECURSIVE PathsUpTo(_)
PathsUpTo(n) ==
    IF n = 0 THEN {<<>>}
    ELSE LET P == PathsUpTo(n - 1) IN
         P \cup {Append(q, nm) : q \in {x \in P : Len(x) = n - 1}, nm \in PathNames}

Filters == {Pow2(TYPE_REGULAR), Pow2(TYPE_DIRECTORY), ALL_TYPES}

InitDir ==
    /\ \E S \in SUBSET DOMAIN RootNames, T \in SUBSET DOMAIN SubNames, fan \in {2, 3} :
         \E rt \in {f \in [S -> {TYPE_REGULAR, TYPE_DIRECTORY}] :
                      \A k \in S : f[k] \in RootTypes(k)} :
            \E last \in IF HasCollision(rt, T) THEN {NameAL, NameBA} ELSE {NameAL} :
               /\ nodes = PackNodes(TreeItems(rt, T, last), fan)
               /\ root = PackRoot(TreeItems(rt, T, last), fan)
    /\ stack = <<>>
    /\ cur = "None"
    /\ op = NoOp
    /\ dir = "none"
    /\ trace = <<>>
    /\ BlocksIdle
    /\ DriverIdle

\* fs.findfile(path), from the root directory
FindFile(path) ==
    /\ fsr = NoCall
    /\ fsr' = [name |-> "findfile", path |-> path, inum |-> 1,
               r |-> findfile(path, 1)]
    /\ UNCHANGED <<cursorVars, blockVars, sv, mainVars>>

\* list(fs.recursefiles(inum, path, filter))
RecurseFiles(inum, path, filter) ==
    /\ fsr = NoCall
    /\ fsr' = [name |-> "recursefiles", path |-> path, inum |-> inum,
               filter |-> filter, r |-> recursefiles(inum, path, filter)]
    /\ UNCHANGED <<cursorVars, blockVars, sv, mainVars>>

NextDir ==
    \/ \E path \in PathsUpTo(MaxPathLen) : FindFile(path)
    \/ \E inum \in 1..(1 + Len(RootNames)), path \in {<<>>, <<NameB>>},
          filter \in Filters : RecurseFiles(inum, path, filter)

SpecDir == InitDir /\ [][NextDir]_vars

(***************************************************************************)
(* Properties of SpecDir                                                   *)
(***************************************************************************)

\* the dirents of the volume, each [key, node], and those of one directory
Dirents == {e \in LeafEntries : e.key[2] = 2}

DirentsOf(inum) == {e \in Dirents : e.key[1] = inum}

NotFound == [found |-> FALSE, inum |-> 0]

\* what resolving the components i.. of path from inode inum of type itype may give
\* when every component moves to a dirent of the current directory whose key is
\* (inum, 2, namehash(component))
RECURSIVE Resolutions(_, _, _, _)
Resolutions(path, i, inum, itype) ==
    IF i > Len(path) THEN {[found |-> TRUE, inum |-> inum]}
    ELSE IF itype # TYPE_DIRECTORY THEN {NotFound}
    ELSE LET M == {e \in Dirents : e.key = <<inum, 2, namehash(path[i])>>} IN
         IF M = {} THEN {NotFound}
         ELSE UNION {Resolutions(path, i + 1, e.node.inum, e.node.type) : e \in M}

\* C11: findfile(path, inum) resolves the components left to right by the exact
\* key (current inum, 2, namehash(component)), moving to the inum and type of the
\* dirent with that key; it returns None when a component's key is absent or the
\* entry reached before a further component is not a directory, and else the inum
\* of the last component's dirent (the start inum for the empty path).
C11_FindFile ==
    fsr.name = "findfile" =>
        /\ fsr.r.err = ""
        /\ [found |-> fsr.r.found, inum |-> fsr.r.inum]
              \in Resolutions(fsr.path, 1, fsr.inum, TYPE_DIRECTORY)

\* a path of two components resolved through a directory to a file in it, and the
\* same directory has no entry for an other name
C11_Witness ==
    /\ fsr.name = "findfile"
    /\ Len(fsr.path) = 2
    /\ fsr.r.found
    /\ fsr.r.inum \in {e.node.inum : e \in Dirents \ DirentsOf(1)}
    /\ \E nm \in PathNames :
          Resolutions(<<fsr.path[1], nm>>, 1, 1, TYPE_DIRECTORY) = {NotFound}

\* what resolving the components i.. of path gives when every component moves to
\* the dirent of the current directory whose stored name is the component
RECURSIVE ResolveByName(_, _, _, _)
ResolveByName(path, i, inum, itype) ==
    IF i > Len(path) THEN [found |-> TRUE, inum |-> inum]
    ELSE IF itype # TYPE_DIRECTORY THEN NotFound
    ELSE LET M == {e \in DirentsOf(inum) : e.node.name = path[i]} IN
         IF M = {} THEN NotFound
         ELSE LET e == CHOOSE x \in M : TRUE IN
              ResolveByName(path, i + 1, e.node.inum, e.node.type)

\* C12: findfile checks the stored name of the dirent it found against the
\* component and scans on through the keys with the same hash, so it resolves a
\* path to the entries that have the names of its components, and to None when
\* such an entry is missing, also in a directory with two names of one hash.
C12_NameVerified ==
    fsr.name = "findfile" =>
        /\ fsr.r.err = ""
        /\ [found |-> fsr.r.found, inum |-> fsr.r.inum]
              = ResolveByName(fsr.path, 1, fsr.inum, TYPE_DIRECTORY)

\* the dirents of directory inum in the order of their leaves
DirentOffs(e) ==
    CHOOSE o \in {a[2] : a \in {x \in DOMAIN nodes : x[1] = LeafLnum}} :
        nodes[<<LeafLnum, o>>] = e.node

OrderedDirents(inum) ==
    [i \in 1..Cardinality(DirentsOf(inum)) |->
        CHOOSE e \in DirentsOf(inum) :
            Cardinality({x \in DirentsOf(inum) : DirentOffs(x) < DirentOffs(e)}) = i - 1]

\* the walk of the tree below inum: each dirent of the directory in leaf order,
\* given if its type is in filter, and right after it what is below it if it is a
\* directory
RECURSIVE Walk(_, _, _)
RECURSIVE WalkFrom(_, _, _, _)
WalkFrom(ents, i, path, filter) ==
    IF i > Len(ents) THEN <<>>
    ELSE LET node == ents[i].node
             p    == Append(path, node.name)
         IN  (IF FilterHas(filter, node.type)
              THEN <<[inum |-> node.inum, path |-> p]>> ELSE <<>>)
             \o (IF node.type = TYPE_DIRECTORY THEN Walk(node.inum, p, filter)
                 ELSE <<>>)
             \o WalkFrom(ents, i + 1, path, filter)

Walk(inum, path, filter) == WalkFrom(OrderedDirents(inum), 1, path, filter)

\* the items of the call that come from the dirents of the directory itself
OwnItems == SelectSeq(fsr.r.items, LAMBDA it : Len(it.path) = Len(fsr.path) + 1)

\* C13: on an acyclic tree recursefiles(inum, path, filter) yields (child inum,
\* path + [name]) once for each dirent of directory inum whose type bit is in
\* filter and for no other dirent of it, in increasing key order, and descends into
\* every dirent that is a directory, in filter or not, yielding what is below it
\* right after the directory's own place.
C13_RecurseFiles ==
    fsr.name = "recursefiles" =>
        /\ fsr.r.err = ""
        /\ fsr.r.items = Walk(fsr.inum, fsr.path, fsr.filter)
        /\ Len(OwnItems)
              = Cardinality({e \in DirentsOf(fsr.inum) :
                               FilterHas(fsr.filter, e.node.type)})
        /\ \A i \in 1..Len(OwnItems) :
              \E e \in DirentsOf(fsr.inum) :
                 /\ FilterHas(fsr.filter, e.node.type)
                 /\ OwnItems[i] = [inum |-> e.node.inum,
                                   path |-> Append(fsr.path, e.node.name)]
                 /\ \A j \in 1..(i - 1) :
                       /\ OwnItems[j] # OwnItems[i]
                       /\ \E d \in DirentsOf(fsr.inum) :
                             /\ OwnItems[j].inum = d.node.inum
                             /\ cmptuple(d.key, e.key) <= 0

\* a walk from the root for regular files only, over a root that holds a regular
\* file and a directory with files in it: the directory is not given, its files are
C13_Witness ==
    /\ fsr.name = "recursefiles"
    /\ fsr.inum = 1
    /\ fsr.filter = Pow2(TYPE_REGULAR)
    /\ \E e \in DirentsOf(1) : e.node.type = TYPE_DIRECTORY /\ DirentsOf(e.node.inum) # {}
    /\ \E i, j \in 1..Len(fsr.r.items) :
          /\ Len(fsr.r.items[i].path) = Len(fsr.path) + 1
          /\ Len(fsr.r.items[j].path) = Len(fsr.path) + 2
    /\ Len(fsr.r.items) < Cardinality(Dirents)

(***************************************************************************)
(* SpecLoad: UbiFs.load on volumes whose master LEB has MaxSlots slots, each *)
(* holding a master node that reads, a node with a wrong crc, or nothing.    *)
(* The master of slot k points to a root index node of its own.              *)
(***************************************************************************)

MaxSlots == 3

SlotKinds == {"good", "badcrc", "empty"}

SuperNode(ok) == [ntype |-> 6, crc_ok |-> ok]

\* the root index node the master of slot k points to, and its address
SlotRootAddr(k) == <<IdxLnum(0), k + 1>>

SlotRoot(k) ==
    [ntype |-> 9, crc_ok |-> TRUE, level |-> 0,
     branches |-> <<[lnum |-> LeafLnum, offs |-> k + 1, key |-> packkey(<<k + 1, 0, 0>>)]>>]

MasterNode(k, ok) ==
    [ntype |-> 7, crc_ok |-> ok, root_lnum |-> SlotRootAddr(k)[1],
     root_offs |-> SlotRootAddr(k)[2]]

\* the nodes of the volume: sb is whether the superblock reads, slots the kind of
\* each master slot
LoadStore(sb, slots) ==
    [a \in {<<0, 0>>}
           \cup {<<1, (k - 1) * MasterSlot>> : k \in {j \in DOMAIN slots : slots[j] # "empty"}}
           \cup {SlotRootAddr(k - 1) : k \in DOMAIN slots}
           \cup {<<LeafLnum, k>> : k \in DOMAIN slots}
       |-> IF a = <<0, 0>> THEN SuperNode(sb)
           ELSE IF a[1] = 1
                THEN MasterNode(a[2] \div MasterSlot, slots[a[2] \div MasterSlot + 1] = "good")
           ELSE IF a[1] = LeafLnum THEN InodeNode(0)
           ELSE SlotRoot(a[2] - 1)]

InitLoad ==
    /\ \E sb \in BOOLEAN, slots \in [1..MaxSlots -> SlotKinds] :
          nodes = LoadStore(sb, slots)
    /\ root = <<>>
    /\ stack = <<>>
    /\ cur = "None"
    /\ op = NoOp
    /\ dir = "none"
    /\ trace = <<>>
    /\ BlocksIdle
    /\ DriverIdle

\* UbiFs(vol): load; m is what find_most_recent_master did when load called it
Load ==
    /\ fsr = NoCall
    /\ LET Loaded(r) ==
              /\ fsr' = [name |-> "load", r |-> r,
                         m |-> IF readnodeOK(0, 0) THEN find_most_recent_master.err
                               ELSE "not called"]
              /\ root' = r.root
       IN  Loaded(UbiFsLoad)
    /\ UNCHANGED <<nodes, stack, cur, op, dir, trace, blockVars, sv, mainVars>>

\* fs.find('eq', key) after a load that succeeded
LoadedFind ==
    /\ fsr.name = "load"
    /\ fsr.r.err = ""
    /\ cur = "None"
    /\ \E k \in 1..MaxSlots :
          LET Found(c) == /\ cur' = c.res
                          /\ stack' = c.stack
                          /\ op' = [name |-> "find", rel |-> "eq", key |-> <<k, 0, 0>>]
          IN  Found(UbiFsFind("eq", <<k, 0, 0>>))
    /\ UNCHANGED <<nodes, root, dir, trace, blockVars, driverVars>>

NextLoad == Load \/ LoadedFind

SpecLoad == InitLoad /\ [][NextLoad]_vars

(***************************************************************************)
(* Properties of SpecLoad                                                  *)
(***************************************************************************)

\* the slots read before the first one that fails, as slot numbers from 0
SlotReads(k) == readnodeOK(1, k * MasterSlot)

ValidSlots == {k \in 0..(MaxSlots - 1) : \A j \in 0..k : SlotReads(j)}

\* C14: find_most_recent_master reads the slots of LEB 1 at 0, 0x1000, ... in
\* order, stops at the first that fails and returns the node of the slot before
\* it; a failure in any slot, the one at offset 0 included, ends the probe with
\* the last valid master in use and with no other error.
C14_LastValidMaster ==
    (fsr.name = "load" /\ readnodeOK(0, 0)) =>
        /\ fsr.m = ""
        /\ ValidSlots # {} =>
              /\ fsr.r.err = ""
              /\ root = SlotRoot(Max(ValidSlots))

\* when the slot at offset 0 reads, the master of the last slot before the first
\* failing one is in use
MasterAfterFirstSlot ==
    (fsr.name = "load" /\ readnodeOK(0, 0) /\ ValidSlots # {}) =>
        /\ fsr.m = ""
        /\ fsr.r.err = ""
        /\ root = SlotRoot(Max(ValidSlots))

(***************************************************************************)
(* SpecDeep: UbiFs.find and the cursor on chains of index nodes.  A chain   *)
(* of depth n has one index node on each of the levels n-1 .. 0, each with   *)
(* one branch to the node below, and up to MaxLeaves leaves under the node   *)
(* of level 0.  A cyclic chain of period p has p index nodes of levels       *)
(* p .. 1, the lowest of which points back to the highest.                   *)
(***************************************************************************)

MaxLeaves == 2      \* most leaves under the level 0 node
ExtraDepth == 1     \* the chains are up to this much deeper than MaxStackDepth
MaxPeriod == 2      \* longest cycle of index nodes

ChainDepths == {1, 2} \cup ((MaxStackDepth - 2)..(MaxStackDepth + ExtraDepth))

\* the keys of the leaves: the second key of the universe onwards
ChainKey(i) == KeyAt(i + 1)

\* the index node of level l of a chain with nleaf leaves
ChainNode(l, nleaf) ==
    [ntype |-> 9, crc_ok |-> TRUE, level |-> l,
     branches |->
        IF l = 0
        THEN [i \in 1..nleaf |-> [lnum |-> LeafLnum, offs |-> i,
                                  key |-> packkey(ChainKey(i))]]
        ELSE <<[lnum |-> IdxLnum(l - 1), offs |-> 1, key |-> packkey(ChainKey(1))]>>]

ChainNodes(n, nleaf) ==
    [a \in {<<IdxLnum(l), 1>> : l \in 0..(n - 1)} |-> ChainNode(a[1] - IdxLnum(0), nleaf)]

\* the index node of level l of a cycle of period p
CycleNode(l, p) ==
    [ntype |-> 9, crc_ok |-> TRUE, level |-> l,
     branches |-> <<[lnum |-> IdxLnum(IF l = 1 THEN p ELSE l - 1), offs |-> 1,
                     key |-> packkey(ChainKey(1))]>>]

CycleNodes(p) ==
    [a \in {<<IdxLnum(l), 1>> : l \in 1..p} |-> CycleNode(a[1] - IdxLnum(0), p)]

InitDeep ==
    /\ \/ \E n \in ChainDepths, nleaf \in 1..MaxLeaves :
             /\ nodes = ChainNodes(n, nleaf)
             /\ root = ChainNode(n - 1, nleaf)
       \/ \E p \in 1..MaxPeriod :
             /\ nodes = CycleNodes(p)
             /\ root = CycleNode(p, p)
    /\ stack = <<>>
    /\ cur = "None"
    /\ op = NoOp
    /\ dir = "none"
    /\ trace = <<>>
    /\ BlocksIdle
    /\ DriverIdle

SpecDeep == InitDeep /\ [][NextCursor]_vars

(***************************************************************************)
(* Properties of SpecDeep                                                  *)
(***************************************************************************)

\* the frames on the stack when the descent from page, the k-th frame, reaches
\* level 0; 0 when it has not reached it within the frames looked at
RECURSIVE FramesToLeaf(_, _)
FramesToLeaf(page, k) ==
    IF page.level = 0 THEN k
    ELSE IF k > MaxStackDepth + ExtraDepth + 1 THEN 0
    ELSE FramesToLeaf(nodes[<<page.branches[1].lnum, page.branches[1].offs>>], k + 1)

TreeDepth == FramesToLeaf(root, 1)

\* C15: find gives a result for every tree whose leaf level is reached with a
\* stack of at most 32 frames, 32 included, and ends with 'tree too deep' for
\* every deeper or cyclic chain, with no more than 32 frames pushed.
C15_DepthBound ==
    op.name = "find" =>
        LET r == UbiFsFind(op.rel, op.key) IN
        /\ Len(r.stack) <= MaxStackDepth
        /\ (TreeDepth >= 1 /\ TreeDepth <= MaxStackDepth) => r.res # "error"
        /\ (TreeDepth = 0 \/ TreeDepth > MaxStackDepth)
              => r.res = "error" /\ r.err = "tree too deep"

\* what holds of the source: the descent ends with 'tree too deep' as soon as the
\* stack has 32 frames, also when the 32nd frame is on level 0
DepthBoundBelow32 ==
    op.name = "find" =>
        LET r == UbiFsFind(op.rel, op.key) IN
        /\ Len(r.stack) <= MaxStackDepth
        /\ (TreeDepth >= 1 /\ TreeDepth < MaxStackDepth) => r.res # "error"
        /\ (TreeDepth = 0 \/ TreeDepth >= MaxStackDepth)
              => r.res = "error" /\ r.err = "tree too deep"

(***************************************************************************)
(* The cursor at the ends of the tree (SpecCursor)                          *)
(***************************************************************************)

\* every frame of the stack is on the first, or on the last, branch of its node
Leftmost(st) ==
    st # <<>> /\ st[1][1] = root /\ \A i \in 1..Len(st) : st[i][2] = 0

Rightmost(st) ==
    st # <<>> /\ st[1][1] = root
              /\ \A i \in 1..Len(st) : st[i][2] = Len(st[i][1].branches) - 1

\* C16: a cursor is at eof exactly when its stack is empty; next() on the largest
\* key and prev() on the smallest key leave the stack empty; next() at eof puts
\* the cursor on the smallest key by the leftmost descent from the root, prev() at
\* eof on the largest key by the rightmost descent.
C16_EofMoves ==
    [][/\ eof(stack') <=> (stack' = <<>>)
       /\ op'.name = "next" =>
             /\ (~eof(stack) /\ getkey(stack) = MaxKey(LeafKeys)) => eof(stack')
             /\ eof(stack) => /\ Leftmost(stack')
                              /\ getkey(stack') = MinKey(LeafKeys)
       /\ op'.name = "prev" =>
             /\ (~eof(stack) /\ getkey(stack) = MinKey(LeafKeys)) => eof(stack')
             /\ eof(stack) => /\ Rightmost(stack')
                              /\ getkey(stack') = MaxKey(LeafKeys)]_vars

\* prev() ran from eof over every key of a tree of full depth down to the smallest
\* and then once more, back to eof
C16_Witness ==
    /\ dir = "prev" /\ op.name = "prev" /\ eof(stack)
    /\ root.level = MaxDepth - 1
    /\ Len(trace) = Cardinality(LeafKeys)
    /\ Len(trace) >= 2
    /\ trace[1] = MaxKey(LeafKeys)
    /\ trace[Len(trace)] = MinKey(LeafKeys)

(***************************************************************************)
(* The volume map after the scan (SpecScan)                                 *)
(***************************************************************************)

\* the map scanblocks builds for the image
ScannedMap == scanblocks(img.pebs, Len(img.pebs))

\* C18: once scanblocks has finished the volume map stays as the scan left it:
\* neither the rest of the construction nor any readvolume call adds, removes or
\* alters an entry or a volume id, and a readvolume for an unmapped (vol_id, lnum)
\* raises an error and gives no data.
C18_MapFrozen ==
    bpc \in {"scanned", "constructed"} =>
        /\ blks.vmap = ScannedMap
        /\ (rv.res # "none"
            /\ ~(rv.volid \in DOMAIN ScannedMap /\ rv.lnum \in DOMAIN ScannedMap[rv.volid]))
              => rv.res = "error"

\* what holds of the source: the entries the scan made are never altered and every
\* failing readvolume gives no data, but the map may gain volume ids without
\* entries and the entry (VTBL_VOLID, 0) -> 0
MapOnlyGrows ==
    bpc \in {"scanned", "constructed"} =>
        /\ \A v \in DOMAIN ScannedMap :
              /\ v \in DOMAIN blks.vmap
              /\ \A l \in DOMAIN ScannedMap[v] :
                    l \in DOMAIN blks.vmap[v] /\ blks.vmap[v][l] = ScannedMap[v][l]
        /\ \A v \in DOMAIN blks.vmap : \A l \in DOMAIN blks.vmap[v] :
              \/ v \in DOMAIN ScannedMap /\ l \in DOMAIN ScannedMap[v]
              \/ v = VTBL_VOLID /\ l = 0 /\ blks.vmap[v][l] = 0
        /\ (rv.res # "none"
            /\ ~(rv.volid \in DOMAIN ScannedMap /\ rv.lnum \in DOMAIN ScannedMap[rv.volid]))
              => rv.res = "error" \/ (rv.volid = VTBL_VOLID /\ rv.lnum = 0)

(***************************************************************************)
(* SpecVols: main and processfile on images whose volume table has its       *)
(* volumes in any records, or a record that does not parse.                  *)
(***************************************************************************)

VolFileNames ==
    {FileName("ok", 1, 0, SbAddr), FileName("ok", 2, 0, SbAddr),
     FileName("sparse", 1, 0, SbAddr), FileName("gap", 2, 0, SbAddr),
     FileName("vtblcrc", 1, 0, SbAddr)}

InitVols ==
    /\ \E n \in 1..MaxFiles : files \in [1..n -> VolFileNames]
    /\ args \in ArgSets
    /\ mpc = [pc |-> "loop", fi |-> 1, volid |-> 0, nvol |-> 0]
    /\ out = <<>>
    /\ CursorIdle
    /\ BlocksIdle
    /\ sv = NoSave
    /\ fsr = NoCall

SpecVols == InitVols /\ [][NextMain]_vars

(***************************************************************************)
(* Properties of SpecVols                                                  *)
(***************************************************************************)

\* the names of the non-empty records of the volume table of fn, by record index
RecordNames(fn) ==
    LET ids == SortedSeq(VolIdsOf(fn)) IN [k \in 1..Len(ids) |-> VolName(ids[k])]

\* C17: processfile handles the volumes of the non-empty records of the volume
\* table, each once, under the name of its record and with the volume id that is
\* the record's index, also when the records are not the first n of the table or
\* when a record of the table fails to parse.
C17_VolumesOfRecords ==
    AtExit =>
        \A i \in FileIdx :
            /\ out[i].err = ""
            /\ out[i].done
            /\ [k \in 1..Len(out[i].vols) |-> out[i].vols[k].name] = RecordNames(files[i])
            /\ \A k \in 1..Len(out[i].vols) : out[i].vols[k].loaded

\* what holds of the source: the images whose n volumes are in the records
\* 0 .. n-1 of a table that parses are handled as C17 says
DenseVolumes ==
    AtExit =>
        \A i \in FileIdx :
            files[i].kind = "ok" =>
                /\ out[i].err = ""
                /\ out[i].done
                /\ [k \in 1..Len(out[i].vols) |-> out[i].vols[k].name]
                      = RecordNames(files[i])
                /\ \A k \in 1..Len(out[i].vols) : out[i].vols[k].loaded

====
